---------------------------- MODULE Spec2Model ----------------------------
(***************************************************************************)
(* A model of the HIL-AI plan-edit demo: the React component App (client), *)
(* the Express proxy (server/index.js) and the mock generators.            *)
(*                                                                         *)
(* Text is modelled character by character: a JavaScript string is a       *)
(* sequence of one-character strings, so that trimming, the regular        *)
(* expressions and JSON.parse act on the characters as the code does.      *)
(* The one non-ASCII character of the source, the bullet U+2022, is the    *)
(* element Bullet.  A nullable string holds Null when it is null.          *)
(***************************************************************************)
EXTENDS Integers, Sequences, FiniteSets, TLC

(***************************************************************************)
(* Characters and strings                                                  *)
(***************************************************************************)
Bullet == "U+2022"

Null == <<"null">>

Digits == {"0", "1", "2", "3", "4", "5", "6", "7", "8", "9"}

UpperCase ==
    <<"A", "B", "C", "D", "E", "F", "G", "H", "I", "J", "K", "L", "M",
      "N", "O", "P", "Q", "R", "S", "T", "U", "V", "W", "X", "Y", "Z">>

LowerCase ==
    <<"a", "b", "c", "d", "e", "f", "g", "h", "i", "j", "k", "l", "m",
      "n", "o", "p", "q", "r", "s", "t", "u", "v", "w", "x", "y", "z">>

IsSpace(c) == c \in {" ", "\t", "\n", "\r", "\f"}

IsDigit(c) == c \in Digits

IsQuote(c) == c = "\""

IsComma(c) == c = ","

IsWordChar(c) ==
    \/ c \in Digits
    \/ c = "_"
    \/ \E i \in 1..26 : c = UpperCase[i] \/ c = LowerCase[i]

ToLowerChar(c) ==
    IF \E i \in 1..26 : UpperCase[i] = c
    THEN LowerCase[CHOOSE i \in 1..26 : UpperCase[i] = c]
    ELSE c

ToLower(s) == [i \in 1..Len(s) |-> ToLowerChar(s[i])]

\* The least index j >= i at which P fails, Len(s)+1 when P holds to the end:
\* where a greedy P* that starts at i stops.
SkipWhile(s, i, P(_)) ==
    CHOOSE j \in i..(Len(s) + 1) :
        /\ j = Len(s) + 1 \/ ~P(s[j])
        /\ \A k \in i..(j - 1) : P(s[k])

\* The least index j such that P holds on all of j..hi: where a trailing
\* run of P that ends at hi begins (hi+1 when s[hi] fails P).
SkipBack(s, hi, P(_)) ==
    CHOOSE j \in 1..(hi + 1) :
        /\ j = 1 \/ ~P(s[j - 1])
        /\ \A k \in j..hi : P(s[k])

From(s, i) == SubSeq(s, i, Len(s))

StartsWithAt(s, i, lit) ==
    /\ i + Len(lit) - 1 <= Len(s)
    /\ \A k \in 1..Len(lit) : s[i + k - 1] = lit[k]

\* String.prototype.trim
Trim(s) ==
    LET a == SkipWhile(s, 1, IsSpace)
        b == SkipBack(s, Len(s), IsSpace)
    IN  IF a > Len(s) THEN <<>> ELSE SubSeq(s, a, b - 1)

\* String.prototype.slice(0, n)
Slice0(s, n) == SubSeq(s, 1, IF Len(s) < n THEN Len(s) ELSE n)

RECURSIVE Join(_, _)
\* Array.prototype.join
Join(list, sep) ==
    IF Len(list) = 0 THEN <<>>
    ELSE IF Len(list) = 1 THEN list[1]
    ELSE list[1] \o sep \o Join(Tail(list), sep)

RECURSIVE SplitLines(_)
\* String.prototype.split("\n")
SplitLines(s) ==
    IF \E i \in 1..Len(s) : s[i] = "\n"
    THEN LET i == CHOOSE j \in 1..Len(s) :
                      s[j] = "\n" /\ \A k \in 1..(j - 1) : s[k] # "\n"
         IN  <<SubSeq(s, 1, i - 1)>> \o SplitLines(From(s, i + 1))
    ELSE <<s>>

RECURSIVE NatToStr(_)
\* The decimal text of a natural number, as a template literal prints it.
NatToStr(n) ==
    LET d == <<"0", "1", "2", "3", "4", "5", "6", "7", "8", "9">>
    IN  IF n < 10 THEN <<d[n + 1]>>
        ELSE NatToStr(n \div 10) \o <<d[(n % 10) + 1]>>

\* Array.prototype.filter
Filter(list, Keep(_)) == SelectSeq(list, Keep)

(***************************************************************************)
(* Client: normalizeSteps                                                  *)
(***************************************************************************)
\* /^(\d+[.)]|[-*U+2022])\s*/ : the index after the match, 0 when none.
\* The same expression is `bullet` in toStepsFromLines (server/index.js).
bulletMatchEnd(s) ==
    LET d == SkipWhile(s, 1, IsDigit)
    IN  IF Len(s) = 0 THEN 0
        ELSE IF d > 1 /\ d <= Len(s) /\ s[d] \in {".", ")"}
             THEN SkipWhile(s, d + 1, IsSpace)
        ELSE IF s[1] \in {"-", "*", Bullet}
             THEN SkipWhile(s, 2, IsSpace)
        ELSE 0

stripBullet(s) ==
    IF bulletMatchEnd(s) = 0 THEN s ELSE From(s, bulletMatchEnd(s))

\* .replace(/^"steps"\s*:\s*\[?/i, "")
stripStepsKey(s) ==
    LET key == <<"\"", "s", "t", "e", "p", "s", "\"">>
        a == SkipWhile(s, 8, IsSpace)
        b == SkipWhile(s, a + 1, IsSpace)
        c == IF b <= Len(s) /\ s[b] = "[" THEN b + 1 ELSE b
    IN  IF /\ Len(s) >= 7
           /\ ToLower(SubSeq(s, 1, 7)) = key
           /\ a <= Len(s)
           /\ s[a] = ":"
        THEN From(s, c)
        ELSE s

\* .replace(/^\s*X+/, "") for X a quote or a comma
stripLeadingRun(s, X(_)) ==
    LET a == SkipWhile(s, 1, IsSpace)
    IN  IF a <= Len(s) /\ X(s[a]) THEN From(s, SkipWhile(s, a, X)) ELSE s

\* .replace(/X+\s*$/, "") for X a quote or a comma: the leftmost match is the
\* whole run of X before the trailing white space.
stripTrailingRun(s, X(_)) ==
    LET b == SkipBack(s, Len(s), IsSpace)
    IN  IF b > 1 /\ X(s[b - 1])
        THEN SubSeq(s, 1, SkipBack(s, b - 1, X) - 1)
        ELSE s

\* /^[\[{]\s*$/.test(s)
isBarePunctuation(s) ==
    /\ Len(s) >= 1
    /\ s[1] \in {"[", "{"}
    /\ SkipWhile(s, 2, IsSpace) = Len(s) + 1

cleanStep(text) ==
    Trim(stripTrailingRun(stripLeadingRun(
         stripTrailingRun(stripLeadingRun(
         stripStepsKey(stripBullet(text)), IsQuote), IsQuote), IsComma), IsComma))

\* The map callback of normalizeSteps: Null for an entry that is dropped.
cleanOrNull(text) ==
    LET cleaned == cleanStep(text)
    IN  IF Len(cleaned) = 0 \/ isBarePunctuation(cleaned) THEN Null ELSE cleaned

IsKept(s) == s # Null /\ Len(s) > 0

normalizeSteps(steps) ==
    Filter([i \in 1..Len(steps) |-> cleanOrNull(steps[i])], IsKept)

(***************************************************************************)
(* JSON values, JSON.parse and String()                                    *)
(*                                                                         *)
(* A value is a record [t, v]: t is its JavaScript type and v its content: *)
(* the characters of a string, the digits of a number as written, a        *)
(* sequence of values for an array, a sequence of members [k, v] for an    *)
(* object.  Escape sequences in strings and exponents in numbers are not   *)
(* part of the grammar modelled; no input of the model contains a          *)
(* backslash or a digit followed by e.                                     *)
(***************************************************************************)
Undefined == [t |-> "undefined", v |-> <<>>]

JNull == [t |-> "null", v |-> <<>>]

JBool(b) == [t |-> "boolean", v |-> <<b>>]

JStr(s) == [t |-> "string", v |-> s]

JNum(s) == [t |-> "number", v |-> s]

JArr(a) == [t |-> "array", v |-> a]

JObj(m) == [t |-> "object", v |-> m]

Failed == [ok |-> FALSE, val |-> Undefined, pos |-> 0]

Parsed(val, pos) == [ok |-> TRUE, val |-> val, pos |-> pos]

IsJsonSpace(c) == c \in {" ", "\t", "\n", "\r"}

\* A string token whose opening quote is at i - 1.
ParseString(s, i) ==
    IF \E j \in i..Len(s) : s[j] = "\""
    THEN LET j == CHOOSE k \in i..Len(s) :
                      s[k] = "\"" /\ \A m \in i..(k - 1) : s[m] # "\""
             body == SubSeq(s, i, j - 1)
         IN  IF \E m \in 1..Len(body) : body[m] \in {"\\", "\n", "\t", "\r", "\f"}
             THEN Failed
             ELSE Parsed(JStr(body), j + 1)
    ELSE Failed

\* -?(0|[1-9][0-9]*)(\.[0-9]+)? starting at i
ParseNumber(s, i) ==
    LET a == IF s[i] = "-" THEN i + 1 ELSE i
        b == SkipWhile(s, a, IsDigit)
        c == IF b < Len(s) /\ s[b] = "." /\ IsDigit(s[b + 1])
             THEN SkipWhile(s, b + 1, IsDigit)
             ELSE b
    IN  IF a > Len(s) \/ b = a THEN Failed
        ELSE IF s[a] = "0" /\ b > a + 1 THEN Parsed(JNum(SubSeq(s, i, a)), a + 1)
        ELSE Parsed(JNum(SubSeq(s, i, c - 1)), c)

RECURSIVE ParseValue(_, _)
RECURSIVE ParseElements(_, _, _)
RECURSIVE ParseMembers(_, _, _)

\* The elements of an array after its '[' (or after a ','), acc those read.
ParseElements(s, i, acc) ==
    LET e == ParseValue(s, i)
        j == SkipWhile(s, e.pos, IsJsonSpace)
    IN  IF ~e.ok \/ j > Len(s) THEN Failed
        ELSE IF s[j] = "]" THEN Parsed(JArr(Append(acc, e.val)), j + 1)
        ELSE IF s[j] = "," THEN ParseElements(s, j + 1, Append(acc, e.val))
        ELSE Failed

\* The members of an object after its '{' (or after a ','), acc those read.
ParseMembers(s, i, acc) ==
    LET a == SkipWhile(s, i, IsJsonSpace)
        k == ParseString(s, a + 1)
        c == SkipWhile(s, k.pos, IsJsonSpace)
        e == ParseValue(s, c + 1)
        j == SkipWhile(s, e.pos, IsJsonSpace)
        m == Append(acc, [k |-> k.val.v, v |-> e.val])
    IN  IF a > Len(s) \/ s[a] # "\"" THEN Failed
        ELSE IF ~k.ok \/ c > Len(s) \/ s[c] # ":" THEN Failed
        ELSE IF ~e.ok \/ j > Len(s) THEN Failed
        ELSE IF s[j] = "}" THEN Parsed(JObj(m), j + 1)
        ELSE IF s[j] = "," THEN ParseMembers(s, j + 1, m)
        ELSE Failed

\* One JSON value starting at or after i, white space skipped.
ParseValue(s, i) ==
    LET a == SkipWhile(s, i, IsJsonSpace)
        b == SkipWhile(s, a + 1, IsJsonSpace)
    IN  IF a > Len(s) THEN Failed
        ELSE IF s[a] = "{"
             THEN IF b <= Len(s) /\ s[b] = "}"
                  THEN Parsed(JObj(<<>>), b + 1)
                  ELSE ParseMembers(s, a + 1, <<>>)
        ELSE IF s[a] = "["
             THEN IF b <= Len(s) /\ s[b] = "]"
                  THEN Parsed(JArr(<<>>), b + 1)
                  ELSE ParseElements(s, a + 1, <<>>)
        ELSE IF s[a] = "\"" THEN ParseString(s, a + 1)
        ELSE IF StartsWithAt(s, a, <<"n", "u", "l", "l">>)
             THEN Parsed(JNull, a + 4)
        ELSE IF StartsWithAt(s, a, <<"t", "r", "u", "e">>)
             THEN Parsed(JBool(TRUE), a + 4)
        ELSE IF StartsWithAt(s, a, <<"f", "a", "l", "s", "e">>)
             THEN Parsed(JBool(FALSE), a + 5)
        ELSE IF s[a] = "-" \/ IsDigit(s[a]) THEN ParseNumber(s, a)
        ELSE Failed

\* A parse is the whole text's when only white space follows the value.
wholeText(s, r) ==
    IF r.ok /\ SkipWhile(s, r.pos, IsJsonSpace) = Len(s) + 1 THEN r ELSE Failed

\* JSON.parse(text): ok is FALSE where JSON.parse throws a SyntaxError.
JSONParse(s) == wholeText(s, ParseValue(s, 1))

\* obj[key] of a parsed value: Undefined for a missing key and for a value
\* that has no such property; the last of several members with one key.
GetField(val, key) ==
    IF val.t = "object" /\ \E i \in 1..Len(val.v) : val.v[i].k = key
    THEN val.v[CHOOSE i \in 1..Len(val.v) :
                   /\ val.v[i].k = key
                   /\ \A j \in (i + 1)..Len(val.v) : val.v[j].k # key].v
    ELSE Undefined

IsZeroNumber(digits) == \A i \in 1..Len(digits) : digits[i] \in {"0", "-", "."}

\* JavaScript truthiness
Truthy(val) ==
    CASE val.t = "undefined" -> FALSE
      [] val.t = "null" -> FALSE
      [] val.t = "boolean" -> val.v[1]
      [] val.t = "string" -> Len(val.v) > 0
      [] val.t = "number" -> ~IsZeroNumber(val.v)
      [] OTHER -> TRUE

\* Number.prototype.toString of a number written as digits[.digits]
NumToStr(digits) ==
    LET hasDot == \E i \in 1..Len(digits) : digits[i] = "."
        z == SkipBack(digits, Len(digits), LAMBDA c : c = "0")
        cut == IF hasDot
               THEN IF digits[z - 1] = "." THEN SubSeq(digits, 1, z - 2)
                    ELSE SubSeq(digits, 1, z - 1)
               ELSE digits
    IN  IF IsZeroNumber(cut) THEN <<"0">> ELSE cut

RECURSIVE JsString(_)
\* String(val)
JsString(val) ==
    CASE val.t = "undefined" -> <<"u", "n", "d", "e", "f", "i", "n", "e", "d">>
      [] val.t = "null" -> <<"n", "u", "l", "l">>
      [] val.t = "boolean" ->
             IF val.v[1] THEN <<"t", "r", "u", "e">> ELSE <<"f", "a", "l", "s", "e">>
      [] val.t = "string" -> val.v
      [] val.t = "number" -> NumToStr(val.v)
      [] val.t = "array" ->
             Join([i \in 1..Len(val.v) |->
                      IF val.v[i].t \in {"null", "undefined"}
                      THEN <<>>
                      ELSE JsString(val.v[i])], <<",">>)
      [] OTHER -> <<"[", "o", "b", "j", "e", "c", "t", " ", "O", "b", "j", "e", "c", "t", "]">>

(***************************************************************************)
(* Server (server/index.js)                                                *)
(***************************************************************************)
NoResponseText ==
    <<"N", "o", " ", "r", "e", "s", "p", "o", "n", "s", "e", " ", "f", "r", "o", "m", " ", "m",
    "o", "d", "e", "l", ".">>

\* An answer of the model endpoint: ok is response.ok, content the text of
\* choices[0].message.content, Null when the reply carries none.
\* callChat: thrown where it throws, else the text it returns.
callChat(llm) ==
    IF ~llm.ok THEN [thrown |-> TRUE, text |-> <<>>]
    ELSE [thrown |-> FALSE,
          text |-> IF llm.content = Null THEN NoResponseText ELSE llm.content]

\* /^here (are|is)\b/i.test(line) || /^proposed/i.test(line)
isIntroLine(line) ==
    LET low == ToLower(line)
        here == <<"h", "e", "r", "e", " ">>
        n == IF StartsWithAt(low, 6, <<"a", "r", "e">>) THEN 9
             ELSE IF StartsWithAt(low, 6, <<"i", "s">>) THEN 8
             ELSE 0
    IN  \/ /\ StartsWithAt(low, 1, here)
           /\ n > 0
           /\ n > Len(line) \/ ~IsWordChar(line[n])
        \/ StartsWithAt(low, 1, <<"p", "r", "o", "p", "o", "s", "e", "d">>)

\* /^"?\s*steps"?\s*:/i.test(line)
isStepsKeyLine(line) ==
    LET low == ToLower(line)
        a == IF Len(low) > 0 /\ low[1] = "\"" THEN 2 ELSE 1
        b == SkipWhile(low, a, IsSpace)
        c == IF b + 5 <= Len(low) /\ low[b + 5] = "\"" THEN b + 6 ELSE b + 5
        d == SkipWhile(low, c, IsSpace)
    IN  /\ StartsWithAt(low, b, <<"s", "t", "e", "p", "s">>)
        /\ d <= Len(low)
        /\ low[d] = ":"

DefaultSteps ==
    <<<<"C", "h", "o", "o", "s", "e", " ", "5", "-", "7", " ", "m", "e", "a", "l", "s", " ", "t",
     "o", " ", "c", "o", "o", "k", " ", "t", "h", "i", "s", " ", "w", "e", "e", "k">>,
     <<"W", "r", "i", "t", "e", " ", "a", " ", "g", "r", "o", "c", "e", "r", "y", " ", "l", "i",
     "s", "t", " ", "f", "o", "r", " ", "t", "h", "o", "s", "e", " ", "m", "e", "a", "l", "s">>,
     <<"B", "u", "y", " ", "a", "l", "l", " ", "i", "n", "g", "r", "e", "d", "i", "e", "n", "t",
     "s", " ", "i", "n", " ", "a", " ", "s", "i", "n", "g", "l", "e", " ", "s", "u", "p", "e",
     "r", "m", "a", "r", "k", "e", "t", " ", "t", "r", "i", "p">>,
     <<"B", "a", "t", "c", "h", " ", "c", "o", "o", "k", " ", "p", "r", "o", "t", "e", "i", "n",
     "s", " ", "a", "n", "d", " ", "g", "r", "a", "i", "n", "s">>,
     <<"P", "o", "r", "t", "i", "o", "n", " ", "m", "e", "a", "l", "s", " ", "i", "n", "t", "o",
     " ", "c", "o", "n", "t", "a", "i", "n", "e", "r", "s", " ", "a", "n", "d", " ", "l", "a",
     "b", "e", "l", " ", "e", "a", "c", "h", " ", "d", "a", "y">>>>

NonEmpty(s) == Len(s) > 0

\* A loop body that pushes the stripped line without the test for empty.
isItemLineKeepingEmpty(line) ==
    /\ ~isIntroLine(line)
    /\ ~isStepsKeyLine(line)
    /\ ~isBarePunctuation(line)

\* The loop body of toStepsFromLines: does the line contribute an item?
isItemLine(line) ==
    /\ ~isIntroLine(line)
    /\ ~isStepsKeyLine(line)
    /\ ~isBarePunctuation(line)
    /\ Len(Trim(stripBullet(line))) > 0

toStepsFromLines(text) ==
    LET split == SplitLines(text)
        lines == Filter([i \in 1..Len(split) |-> Trim(split[i])], NonEmpty)
        kept == Filter(lines, isItemLine)
        items == [i \in 1..Len(kept) |-> Trim(stripBullet(kept[i]))]
    IN  IF Len(items) > 0 THEN items ELSE DefaultSteps

\* The first truthy of entry.text || entry.content || ... || entry.value,
\* the last of them when none is truthy.
firstTruthyField(entry) ==
    LET keys == << <<"t", "e", "x", "t">>,
                   <<"c", "o", "n", "t", "e", "n", "t">>,
                   <<"t", "i", "t", "l", "e">>,
                   <<"d", "e", "s", "c", "r", "i", "p", "t", "i", "o", "n">>,
                   <<"s", "t", "e", "p">>,
                   <<"v", "a", "l", "u", "e">> >>
    IN  IF \E i \in 1..6 : Truthy(GetField(entry, keys[i]))
        THEN GetField(entry, keys[CHOOSE i \in 1..6 :
                 /\ Truthy(GetField(entry, keys[i]))
                 /\ \A j \in 1..(i - 1) : ~Truthy(GetField(entry, keys[j]))])
        ELSE GetField(entry, keys[6])

\* if (candidate) return String(candidate); return String(entry ?? "")
stringOf(entry, candidate) ==
    IF entry.t \in {"object", "array"} /\ Truthy(candidate) THEN JsString(candidate)
    ELSE IF entry.t \in {"null", "undefined"} THEN <<>>
    ELSE JsString(entry)

coerceStep(entry) ==
    IF entry.t = "string" THEN entry.v ELSE stringOf(entry, firstTruthyField(entry))

\* raw.match(/\{[\s\S]*\}/): from the first '{' to the last '}' after it.
hasJsonBlock(raw) ==
    \E i, j \in 1..Len(raw) : i < j /\ raw[i] = "{" /\ raw[j] = "}"

jsonBlock(raw) ==
    LET i == CHOOSE a \in 1..Len(raw) :
                 raw[a] = "{" /\ \A k \in 1..(a - 1) : raw[k] # "{"
        j == CHOOSE b \in 1..Len(raw) :
                 raw[b] = "}" /\ \A k \in (b + 1)..Len(raw) : raw[k] # "}"
    IN  SubSeq(raw, i, j)

\* The catch block of the inner try: the candidate parsed from the block, a
\* throw where JSON.parse(match[0]) throws.
blockCandidate(block) ==
    IF block.ok THEN [thrown |-> FALSE, val |-> block.val]
    ELSE [thrown |-> TRUE, val |-> JNull]

candidateOf(raw, direct) ==
    IF direct.ok THEN [thrown |-> FALSE, val |-> direct.val]
    ELSE IF hasJsonBlock(raw) THEN blockCandidate(JSONParse(jsonBlock(raw)))
    ELSE [thrown |-> FALSE, val |-> JNull]

\* The inner try/catch of parseJsonSteps: the candidate, or a throw.
parseCandidate(raw) == candidateOf(raw, JSONParse(raw))

NoResult == [thrown |-> FALSE, isNull |-> TRUE, steps |-> <<>>]

Thrown == [thrown |-> TRUE, isNull |-> FALSE, steps |-> <<>>]

\* if (candidate && Array.isArray(candidate.steps)) return candidate.steps.map(...)
stepsOf(candidate, steps) ==
    IF Truthy(candidate) /\ steps.t = "array"
    THEN [thrown |-> FALSE, isNull |-> FALSE,
          steps |-> [i \in 1..Len(steps.v) |-> coerceStep(steps.v[i])]]
    ELSE NoResult

stepsOfCandidate(c) ==
    IF c.thrown THEN Thrown
    ELSE stepsOf(c.val, GetField(c.val, <<"s", "t", "e", "p", "s">>))

\* The body of the outer try of parseJsonSteps, and the return null after it.
parseJsonStepsTry(raw) == stepsOfCandidate(parseCandidate(raw))

\* A parseJsonSteps without its outer catch: the throw reaches the caller.
rethrow(outcome) == outcome

\* The outer catch turns every throw into null.
catchAll(outcome) == IF outcome.thrown THEN NoResult ELSE outcome

parseJsonSteps(raw) == catchAll(parseJsonStepsTry(raw))

\* jsonSteps ?? toStepsFromLines(planText)
orLines(jsonSteps, planText) ==
    IF jsonSteps.isNull THEN toStepsFromLines(planText) ELSE jsonSteps.steps

listSteps(planText) == orLines(parseJsonSteps(planText), planText)

\* text.replace(/^[0-9.\s]+/, "")
stripLeadingNumbering(text) ==
    From(text, SkipWhile(text, 1, LAMBDA c : IsDigit(c) \/ c = "." \/ IsSpace(c)))

\* listSteps.map((text) => text.replace(/^[0-9.\s]+/, ""))
stripAll(list) == [i \in 1..Len(list) |-> stripLeadingNumbering(list[i])]

planResponse(chat) ==
    IF chat.thrown THEN [ok |-> FALSE, steps |-> <<>>]
    ELSE [ok |-> TRUE, steps |-> stripAll(listSteps(chat.text))]

\* POST /api/plan: status 500 when callChat throws, else { steps }.
\* The request's prompt reaches only the text sent to the model.
apiPlan(llm) == planResponse(callChat(llm))

chatResponse(chat) ==
    IF chat.thrown THEN [ok |-> FALSE, content |-> <<>>]
    ELSE [ok |-> TRUE, content |-> chat.text]

\* POST /api/chat
apiChat(llm) == chatResponse(callChat(llm))

\* stepText of POST /api/run-plan
stepText(steps) ==
    Join([i \in 1..Len(steps) |-> NatToStr(i) \o <<".", " ">> \o steps[i]], <<"\n">>)

\* runPrompt of POST /api/run-plan.  The fixed instruction text around the
\* two interpolations is left out: the prompt is the pair of what it
\* interpolates.
runPrompt(prompt, steps) == [prompt |-> prompt, stepText |-> stepText(steps)]

runResponse(chat) ==
    IF chat.thrown THEN [ok |-> FALSE, result |-> <<>>]
    ELSE [ok |-> TRUE, result |-> chat.text]

\* POST /api/run-plan: the answer of the model to runPrompt(body.prompt,
\* body.steps), status 500 when callChat throws.
apiRunPlan(body, llm) == runResponse(callChat(llm))

(***************************************************************************)
(* Mock generators (llm/mock)                                              *)
(***************************************************************************)
sampleVerbs ==
    <<<<"A", "n", "a", "l", "y", "z", "e">>,
     <<"O", "u", "t", "l", "i", "n", "e">>,
     <<"D", "r", "a", "f", "t">>,
     <<"R", "e", "v", "i", "e", "w">>,
     <<"R", "e", "f", "i", "n", "e">>,
     <<"S", "u", "m", "m", "a", "r", "i", "z", "e">>>>

sampleFinishes ==
    <<<<"h", "i", "g", "h", "l", "i", "g", "h", "t", "i", "n", "g", " ", "k", "e", "y", " ", "t",
     "r", "a", "d", "e", "-", "o", "f", "f", "s">>,
     <<"k", "e", "e", "p", "i", "n", "g", " ", "i", "t", " ", "c", "o", "n", "c", "i", "s", "e">>,
     <<"w", "i", "t", "h", " ", "a", "n", " ", "e", "x", "a", "m", "p", "l", "e">>,
     <<"n", "o", "t", "i", "n", "g", " ", "a", "s", "s", "u", "m", "p", "t", "i", "o", "n", "s">>,
     <<"w", "i", "t", "h", " ", "c", "l", "e", "a", "r", " ", "b", "u", "l", "l", "e", "t", " ",
     "p", "o", "i", "n", "t", "s">>>>

\* Math.random() takes the values k / RandomGrid, k in 0..RandomGrid-1.
RandomGrid == 1

RandomDraws == 0..(RandomGrid - 1)

\* sampleFinishes[Math.floor(Math.random() * sampleFinishes.length)]
pickFinishing(k) == sampleFinishes[((k * Len(sampleFinishes)) \div RandomGrid) + 1]

\* [...sampleVerbs].sort(() => 0.5 - Math.random()): the order a sort with a
\* random comparator leaves is any permutation; those considered move only
\* the first MaxShuffle entries.
MaxShuffle == 1

Shuffles ==
    {[i \in 1..Len(sampleVerbs) |-> IF i <= MaxShuffle THEN q[i] ELSE i] :
        q \in {p \in [1..MaxShuffle -> 1..MaxShuffle] :
                  \A i, j \in 1..MaxShuffle : i # j => p[i] # p[j]}}

MockChatHead ==
    <<"H", "e", "r", "e", "'", "s", " ", "a", " ", "q", "u", "i", "c", "k", " ", "t", "a", "k",
    "e", " ", "o", "n", " ", "\"">>

MockChatMid ==
    <<"\"", ":", " ", "f", "o", "c", "u", "s", " ", "o", "n", " ", "t", "h", "e", " ", "m",
    "a", "i", "n", " ", "i", "n", "t", "e", "n", "t", ",", " ", "p", "r", "o", "v", "i", "d",
    "e", " ", "2", "-", "3", " ", "c", "r", "i", "s", "p", " ", "p", "o", "i", "n", "t", "s",
    ",", " ", "a", "n", "d", " ", "c", "l", "o", "s", "e", " ">>

YourRequest ==
    <<"y", "o", "u", "r", " ", "r", "e", "q", "u", "e", "s", "t">>

mockChatResponse(prompt, k) ==
    LET trimmed == Trim(prompt)
        summary == IF Len(Slice0(trimmed, 80)) > 0 THEN Slice0(trimmed, 80)
                   ELSE YourRequest
    IN  MockChatHead \o summary \o MockChatMid \o pickFinishing(k) \o <<".">>

TheQuestion ==
    <<"t", "h", "e", " ", "q", "u", "e", "s", "t", "i", "o", "n">>

mockPlanResponse(prompt, shuffle) ==
    LET core == IF Len(Trim(prompt)) > 0 THEN Trim(prompt) ELSE TheQuestion
        verbs == [i \in 1..3 |-> sampleVerbs[shuffle[i]]]
        steps == [i \in 1..3 |-> NatToStr(i) \o <<".", " ">> \o verbs[i] \o <<" ">> \o core]
    IN  IF Len(steps) = 0 THEN <<<<"R", "e", "v", "i", "e", "w", " ">> \o core>> ELSE steps

\* text.replace(/^[0-9]+\\.\\s*/, ""): one or more digits, a backslash, any
\* character but a line break, a backslash, then any number of letters s.
stripMockNumbering(text) ==
    LET d == SkipWhile(text, 1, IsDigit)
    IN  IF /\ d > 1
           /\ d + 2 <= Len(text)
           /\ text[d] = "\\"
           /\ text[d + 1] \notin {"\n", "\r"}
           /\ text[d + 2] = "\\"
        THEN From(text, SkipWhile(text, d + 3, LAMBDA c : c = "s"))
        ELSE text

MockRunHead ==
    <<"R", "a", "n", " ", "p", "l", "a", "n", " ", "f", "o", "r", " ", "\"">>

MockRunSteps ==
    <<"\"", ".", " ", "S", "t", "e", "p", "s", ":", " ">>

MockRunResult ==
    <<".", " ", "R", "e", "s", "u", "l", "t", ":", " ", "c", "o", "h", "e", "r", "e", "n", "t",
    " ", "a", "n", "s", "w", "e", "r", " ">>

ThePrompt ==
    <<"t", "h", "e", " ", "p", "r", "o", "m", "p", "t">>

mockRunPlan(prompt, steps, k) ==
    LET summary == Join([i \in 1..Len(steps) |->
                            NatToStr(i) \o <<")", " ">> \o stripMockNumbering(steps[i])],
                        <<";", " ">>)
        base == IF Len(Trim(prompt)) > 0 THEN Trim(prompt) ELSE ThePrompt
    IN  MockRunHead \o base \o MockRunSteps \o summary \o MockRunResult
            \o pickFinishing(k) \o <<".">>

(***************************************************************************)
(* Client: the HTTP calls (llm/httpClient)                                 *)
(***************************************************************************)
\* The body of a plan response as res.json() returns it.
planBody(steps) ==
    JObj(<<[k |-> <<"s", "t", "e", "p", "s">>,
            v |-> JArr([i \in 1..Len(steps) |-> JStr(steps[i])])]>>)

pickText(entry) ==
    IF entry.t = "string" THEN entry.v ELSE stringOf(entry, firstTruthyField(entry))

\* const rawSteps = Array.isArray(data.steps) ? data.steps : []
rawStepsOf(steps) == IF steps.t = "array" THEN steps.v ELSE <<>>

pickAll(rawSteps) == [i \in 1..Len(rawSteps) |-> pickText(rawSteps[i])]

\* realPlan, given the body of a successful response
realPlan(data) == pickAll(rawStepsOf(GetField(data, <<"s", "t", "e", "p", "s">>)))

(***************************************************************************)
(* Client: the App component                                               *)
(*                                                                         *)
(* The state is the useState cells of App, plus the handler invocations    *)
(* that wait on a model call: sends holds one record for every handleSend  *)
(* that awaits its calls, runs one for every handleRunPlan that does.  A   *)
(* record keeps what the invocation's closure holds (trimmed; prompt and   *)
(* steps) and where its calls stand.  A handler runs when the user acts,   *)
(* after React has rendered the last update, so it reads the current       *)
(* state; the continuation after an await runs in one step, as the event   *)
(* loop runs it.                                                           *)
(***************************************************************************)
VARIABLES
    currentInput,       \* the shared prompt box
    chatMessages,       \* the chat log
    planState,          \* [originalPrompt, steps, hasRun, planResult]
    lastPrompt,
    llmMode,            \* "http" or "mock"
    llmNotice,
    planWarning,
    isResponding,
    isGeneratingPlan,
    isRunningPlan,
    sends,              \* the handleSend invocations that wait, in order of start
    runs,               \* the handleRunPlan invocations that wait, in order of start
    shown,              \* the prompt and steps of the run whose result came last
    answers,            \* the model calls that have returned, as they ended
    nSends,             \* submissions made so far
    nRuns,              \* runs started so far
    nEdits,             \* step edits made so far
    planText,           \* POST /api/plan alone: the text the model returned
    planReply,          \* POST /api/plan alone: what the handler computed
    stepsRun,           \* toStepsFromLines and normalizeSteps alone
    coerceRun,          \* coerceStep and pickText alone
    scan                \* toDisplayBlocks alone: its locals as it scans

appVars ==
    <<currentInput, chatMessages, planState, lastPrompt, llmMode, llmNotice,
      planWarning, isResponding, isGeneratingPlan, isRunningPlan, sends, runs,
      shown, answers, nSends, nRuns, nEdits>>

\* The variables of the functions run on their own
functionVars == <<stepsRun, coerceRun, scan>>

serverVars == <<planText, planReply, functionVars>>

vars == <<appVars, serverVars>>

\* Bounds of the model
\* The user makes at most MaxSends submissions, MaxRuns runs and MaxEdits step
\* edits, and in all at most MaxWork model calls (two for a submission, one
\* for a run) and edits.
MaxSends == 2

MaxRuns == 2

MaxEdits == 2

MaxWork == 5

MaxSteps == 4

FALLBACK_STEPS ==
    <<<<"S", "u", "m", "m", "a", "r", "i", "z", "e", " ", "t", "h", "e", " ", "u", "s", "e", "r",
     " ", "g", "o", "a", "l", " ", "a", "n", "d", " ", "l", "i", "s", "t", " ", "k", "e", "y",
     " ", "c", "o", "n", "s", "t", "r", "a", "i", "n", "t", "s">>,
     <<"D", "e", "s", "i", "g", "n", " ", "c", "o", "r", "e", " ", "p", "h", "a", "s", "e", "s",
     " ", "o", "r", " ", "j", "o", "u", "r", "n", "e", "y", "s", " ", "t", "h", "a", "t", " ",
     "s", "a", "t", "i", "s", "f", "y", " ", "c", "o", "n", "s", "t", "r", "a", "i", "n", "t",
     "s">>,
     <<"O", "u", "t", "l", "i", "n", "e", " ", "t", "a", "s", "k", "s", " ", "o", "r", " ", "f",
     "e", "a", "t", "u", "r", "e", "s", " ", "f", "o", "r", " ", "e", "a", "c", "h", " ", "p",
     "h", "a", "s", "e">>,
     <<"P", "l", "a", "n", " ", "v", "a", "l", "i", "d", "a", "t", "i", "o", "n", "/", "t", "e",
     "s", "t", "i", "n", "g", " ", "s", "t", "e", "p", "s", " ", "t", "o", " ", "c", "h", "e",
     "c", "k", " ", "t", "h", "e", " ", "s", "o", "l", "u", "t", "i", "o", "n", " ", "i", "n",
     " ", "r", "e", "a", "l", " ", "l", "i", "f", "e">>>>

FallbackNotice ==
    <<"H", "T", "T", "P", " ", "L", "L", "M", " ", "f", "a", "i", "l", "e", "d", ";", " ", "f",
    "e", "l", "l", " ", "b", "a", "c", "k", " ", "t", "o", " ", "m", "o", "c", "k", ".">>

RunWarning ==
    <<"A", "d", "d", " ", "a", "t", " ", "l", "e", "a", "s", "t", " ", "o", "n", "e", " ", "s",
    "t", "e", "p", " ", "b", "e", "f", "o", "r", "e", " ", "r", "u", "n", "n", "i", "n", "g",
    ".">>

LatestPrompt ==
    <<"y", "o", "u", "r", " ", "l", "a", "t", "e", "s", "t", " ", "p", "r", "o", "m", "p", "t">>

\* What the user types into the prompt box: the text of the next submission
Prompts == <<<<" ", "a", " ">>, <<"b">>, <<"c">>>>

Inputs == {Prompts[IF nSends < Len(Prompts) THEN nSends + 1 ELSE Len(Prompts)]}

\* What the user types into a step's text field
EditTexts == {<<"e">>}

\* Answers of the model endpoint to the chat, plan and run requests
LLMFailure == [ok |-> FALSE, content |-> Null]

ChatAnswers == {LLMFailure, [ok |-> TRUE, content |-> Null]}

PlanTextJson ==
    <<"{", "\"", "s", "t", "e", "p", "s", "\"", ":", "[", "\"", "A", "\"", ",", "\"", "-", " ",
    "B", "\"", "]", "}">>

PlanTextNumberOnly ==
    <<"{", "\"", "s", "t", "e", "p", "s", "\"", ":", "[", "\"", "1", ".", "\"", "]", "}">>

PlanTextEmpty ==
    <<"{", "\"", "s", "t", "e", "p", "s", "\"", ":", "[", "]", "}">>

PlanAnswers ==
    {LLMFailure} \cup
    {[ok |-> TRUE, content |-> t] : t \in {PlanTextJson, PlanTextNumberOnly, PlanTextEmpty}}

RunAnswers ==
    {LLMFailure, [ok |-> TRUE, content |-> <<"D", "a", "y", " ", "1">>]}

\* llmMode's initial value: USE_HTTP_LLM ? "http" : "mock"
InitialModes == {"http", "mock"}

nWork == 2 * nSends + nRuns + nEdits

MaySend == nSends < MaxSends /\ nWork + 2 <= MaxWork

MayRun == nRuns < MaxRuns /\ nWork + 1 <= MaxWork

MayEdit == nEdits < MaxEdits /\ nWork + 1 <= MaxWork

\* A call that goes to the backend whatever llmMode it reads.
startCallOverHttp(mode) ==
    [phase |-> "http", startMode |-> mode, httpRequests |-> 1, failed |-> FALSE,
     answeredBy |-> "none"]

\* A model call of chatWithLLM, generatePlanSteps or runPlanWithLLM as it
\* starts: over HTTP when the llmMode it reads is "http", else the mock.
startCall(mode) ==
    [phase |-> IF mode = "http" THEN "http" ELSE "mock",
     startMode |-> mode,
     httpRequests |-> IF mode = "http" THEN 1 ELSE 0,
     failed |-> FALSE,
     answeredBy |-> "none"]

\* A catch block that sends the request to the backend again.
retryOverHttp(call) ==
    [call EXCEPT !.phase = "http", !.httpRequests = @ + 1, !.failed = TRUE]

\* A catch block that leaves the call waiting for nothing.
abandonCall(call) == [call EXCEPT !.phase = "lost", !.failed = TRUE]

\* The catch block of a call: the mock is called next, not the backend.
catchHttpError(call) == [call EXCEPT !.phase = "mock", !.failed = TRUE]

\* What the catch block sets llmMode to.
modeAfterFailure == "mock"

answered(call, by) == [call EXCEPT !.phase = "done", !.answeredBy = by]

IsDone(call) == call.phase = "done"

\* Promise.race in the place of Promise.all: the first call to finish joins.
eitherDone(send) == IsDone(send.chat) \/ IsDone(send.plan)

\* Promise.all([chatWithLLM, generatePlanSteps]) has resolved
bothDone(send) == IsDone(send.chat) /\ IsDone(send.plan)

\* steps.length ? steps : FALLBACK_STEPS
orFallback(steps) == IF Len(steps) > 0 THEN steps ELSE FALLBACK_STEPS

IsFalsy(s) == s = Null \/ Len(s) = 0

\* The state updaters passed to setPlanState
invalidateResult(prev) == [prev EXCEPT !.planResult = Null, !.hasRun = FALSE]

clearPlanResult(prev) == [prev EXCEPT !.planResult = Null]

installPlan(trimmed, generatedSteps) ==
    [originalPrompt |-> trimmed,
     steps |-> normalizeSteps(generatedSteps),
     hasRun |-> FALSE,
     planResult |-> Null]

\* An updater that stores the result and leaves hasRun as it was.
applyResultOnly(prev, result) == [prev EXCEPT !.planResult = result]

applyRunResult(prev, result) == [prev EXCEPT !.planResult = result, !.hasRun = TRUE]

\* Indices are those of the rendered list, 1-based here.
updateStepTextUpdater(prev, idx, text) ==
    [prev EXCEPT !.steps = [i \in 1..Len(prev.steps) |->
                               IF i = idx THEN text ELSE prev.steps[i]],
                 !.hasRun = FALSE,
                 !.planResult = Null]

\* A removeStep that drops the last step, whatever the index.
removeLastStep(prev, idx) ==
    [prev EXCEPT !.steps = SubSeq(prev.steps, 1, Len(prev.steps) - 1),
                 !.hasRun = FALSE,
                 !.planResult = Null]

removeStepUpdater(prev, idx) ==
    [prev EXCEPT !.steps = [i \in 1..(Len(prev.steps) - 1) |->
                               IF i < idx THEN prev.steps[i] ELSE prev.steps[i + 1]],
                 !.hasRun = FALSE,
                 !.planResult = Null]

addStepUpdater(prev, closureLastPrompt) ==
    [prev EXCEPT !.originalPrompt = IF prev.originalPrompt = Null
                                    THEN closureLastPrompt
                                    ELSE prev.originalPrompt,
                 !.steps = Append(prev.steps, <<>>),
                 !.hasRun = FALSE,
                 !.planResult = Null]

\* A moveStep that swaps the steps and keeps hasRun and planResult.
moveStepKeepingResult(prev, idx, direction) ==
    LET target == IF direction = "up" THEN idx - 1 ELSE idx + 1
    IN  IF target < 1 \/ target > Len(prev.steps) THEN prev
        ELSE [prev EXCEPT !.steps = [i \in 1..Len(prev.steps) |->
                                        IF i = idx THEN prev.steps[target]
                                        ELSE IF i = target THEN prev.steps[idx]
                                        ELSE prev.steps[i]]]

moveStepUpdater(prev, idx, direction) ==
    LET target == IF direction = "up" THEN idx - 1 ELSE idx + 1
    IN  IF target < 1 \/ target > Len(prev.steps) THEN prev
        ELSE [prev EXCEPT !.steps = [i \in 1..Len(prev.steps) |->
                                        IF i = idx THEN prev.steps[target]
                                        ELSE IF i = target THEN prev.steps[idx]
                                        ELSE prev.steps[i]],
                          !.hasRun = FALSE,
                          !.planResult = Null]

\* A guard of handleRunPlan that does not read isRunningPlan.
runRefusedUnlessEmpty(plan, running) ==
    IsFalsy(plan.originalPrompt) \/ Len(plan.steps) = 0

\* A guard of handleRunPlan that does not read originalPrompt.
runRefusedWithoutPrompt(plan, running) ==
    Len(plan.steps) = 0 \/ running

\* The guard of handleRunPlan: TRUE where it warns and returns.
runRefused(plan, running) ==
    IsFalsy(plan.originalPrompt) \/ Len(plan.steps) = 0 \/ running

\* planState.originalPrompt || lastPrompt || "your latest prompt"
runPromptOf(plan, closureLastPrompt) ==
    IF ~IsFalsy(plan.originalPrompt) THEN plan.originalPrompt
    ELSE IF ~IsFalsy(closureLastPrompt) THEN closureLastPrompt
    ELSE LatestPrompt

\* A handleRunPlan that passes on only the steps that have text.
runStepsWithText(plan) == Filter(plan.steps, NonEmpty)

\* The steps handleRunPlan passes to runPlanWithLLM
runStepsOf(plan) == plan.steps

\* The body realRunPlan posts to /run-plan
runRequestBody(prompt, steps) == [prompt |-> prompt, steps |-> steps]

NoReply == [done |-> FALSE, jsonSteps |-> NoResult, usedLines |-> FALSE, steps |-> <<>>]

\* No function is run on its own.
functionsAtRest ==
    /\ stepsRun = [stage |-> "none"]
    /\ coerceRun = [stage |-> "none"]
    /\ scan = [stage |-> "none"]

Init ==
    /\ currentInput = <<>>
    /\ chatMessages = <<>>
    /\ planState = [originalPrompt |-> Null, steps |-> <<>>,
                    hasRun |-> FALSE, planResult |-> Null]
    /\ lastPrompt = <<>>
    /\ llmMode \in InitialModes
    /\ llmNotice = <<>>
    /\ planWarning = <<>>
    /\ isResponding = FALSE
    /\ isGeneratingPlan = FALSE
    /\ isRunningPlan = FALSE
    /\ sends = <<>>
    /\ runs = <<>>
    /\ shown = [prompt |-> Null, steps |-> <<>>]
    /\ answers = {}
    /\ nSends = 0
    /\ nRuns = 0
    /\ nEdits = 0
    /\ planText = <<>>
    /\ planReply = NoReply
    /\ functionsAtRest

Remove(seq, i) == SubSeq(seq, 1, i - 1) \o SubSeq(seq, i + 1, Len(seq))

\* onChange of the prompt box
SetCurrentInput(text) ==
    /\ currentInput # text
    /\ currentInput' = text
    /\ UNCHANGED <<chatMessages, planState, lastPrompt, llmMode, llmNotice,
                   planWarning, isResponding, isGeneratingPlan, isRunningPlan,
                   sends, runs, shown, answers, nSends, nRuns, nEdits, serverVars>>

\* An updater that puts the message in front
prependMessage(prev, msg) == <<msg>> \o prev

\* (prev) => [...prev, msg]
appendMessage(prev, msg) == Append(prev, msg)

\* createId() gives each message an id of its own.
message(role, content) ==
    [id |-> Len(chatMessages) + 1, role |-> role, content |-> content]

\* handleSend up to its await: an empty prompt returns at once; otherwise
\* the user message is appended, the result invalidated and both calls
\* started, each reading the llmMode of this render.
handleSend ==
    LET trimmed == Trim(currentInput)
    IN  /\ UNCHANGED <<llmMode, llmNotice, isRunningPlan, runs, shown, answers,
                       nRuns, nEdits, serverVars>>
        /\ IF Len(trimmed) = 0
           THEN UNCHANGED <<currentInput, chatMessages, planState, lastPrompt,
                            planWarning, isResponding, isGeneratingPlan, sends,
                            nSends>>
           ELSE /\ chatMessages' = appendMessage(chatMessages, message("user", trimmed))
                /\ currentInput' = <<>>
                /\ lastPrompt' = trimmed
                /\ planState' = invalidateResult(planState)
                /\ planWarning' = <<>>
                /\ isResponding' = TRUE
                /\ isGeneratingPlan' = TRUE
                /\ nSends' = nSends + 1
                /\ sends' = Append(sends, [trimmed |-> trimmed,
                                           chat |-> startCall(llmMode),
                                           plan |-> startCall(llmMode),
                                           reply |-> <<>>,
                                           generated |-> <<>>])

\* The Send button: disabled on an empty prompt and while a submission waits.
SendButton ==
    /\ ~(Len(Trim(currentInput)) = 0 \/ isResponding \/ isGeneratingPlan)
    /\ MaySend
    /\ handleSend

\* handleKeyDown on Enter without Shift
HandleKeyDown ==
    /\ Len(Trim(currentInput)) = 0 \/ MaySend
    /\ handleSend

\* A call of the waiting submission i has settled and left the record s2:
\* once Promise.all has resolved, the rest of handleSend runs.
settleSend(i, s2) ==
    IF bothDone(s2)
    THEN /\ sends' = Remove(sends, i)
         /\ chatMessages' = appendMessage(chatMessages, message("assistant", s2.reply))
         /\ planState' = installPlan(s2.trimmed, s2.generated)
         /\ isResponding' = FALSE
         /\ isGeneratingPlan' = FALSE
    ELSE /\ sends' = [sends EXCEPT ![i] = s2]
         /\ UNCHANGED <<chatMessages, planState, isResponding, isGeneratingPlan>>

\* The catch block of chatWithLLM, generatePlanSteps and runPlanWithLLM
fallBackToMock ==
    /\ llmMode' = modeAfterFailure
    /\ llmNotice' = FallbackNotice

\* chatWithLLM after await realChatCompletion, given the response
chatAnswered(i, response) ==
    IF response.ok
    THEN /\ settleSend(i, [sends[i] EXCEPT !.chat = answered(@, "http"),
                                           !.reply = response.content])
         /\ answers' = answers \cup {answered(sends[i].chat, "http")}
         /\ UNCHANGED <<llmMode, llmNotice>>
    ELSE /\ fallBackToMock
         /\ sends' = [sends EXCEPT ![i].chat = catchHttpError(@)]
         /\ UNCHANGED <<chatMessages, planState, isResponding, isGeneratingPlan,
                        answers>>

\* chatWithLLM: the /chat request of submission i is answered
ChatHttpSettles(i, llm) ==
    /\ sends[i].chat.phase = "http"
    /\ UNCHANGED <<currentInput, lastPrompt, planWarning, isRunningPlan, runs,
                   shown, nSends, nRuns, nEdits, serverVars>>
    /\ chatAnswered(i, apiChat(llm))

\* chatWithLLM: the timer of mockChatResponse fires
ChatMockSettles(i, k) ==
    /\ sends[i].chat.phase = "mock"
    /\ UNCHANGED <<currentInput, lastPrompt, llmMode, llmNotice, planWarning,
                   isRunningPlan, runs, shown, nSends, nRuns, nEdits, serverVars>>
    /\ settleSend(i, [sends[i] EXCEPT !.chat = answered(@, "mock"),
                                      !.reply = mockChatResponse(sends[i].trimmed, k)])
    /\ answers' = answers \cup {answered(sends[i].chat, "mock")}

\* generatePlanSteps after await realPlan, given the response
planAnswered(i, response) ==
    IF response.ok
    THEN /\ settleSend(i, [sends[i] EXCEPT
                 !.plan = answered(@, "http"),
                 !.generated = orFallback(realPlan(planBody(response.steps)))])
         /\ answers' = answers \cup {answered(sends[i].plan, "http")}
         /\ UNCHANGED <<llmMode, llmNotice>>
    ELSE /\ fallBackToMock
         /\ sends' = [sends EXCEPT ![i].plan = catchHttpError(@)]
         /\ UNCHANGED <<chatMessages, planState, isResponding, isGeneratingPlan,
                        answers>>

\* generatePlanSteps: the /plan request of submission i is answered
PlanHttpSettles(i, llm) ==
    /\ sends[i].plan.phase = "http"
    /\ UNCHANGED <<currentInput, lastPrompt, planWarning, isRunningPlan, runs,
                   shown, nSends, nRuns, nEdits, serverVars>>
    /\ planAnswered(i, apiPlan(llm))

\* generatePlanSteps: the timer of mockPlanResponse fires
PlanMockSettles(i, shuffle) ==
    /\ sends[i].plan.phase = "mock"
    /\ UNCHANGED <<currentInput, lastPrompt, llmMode, llmNotice, planWarning,
                   isRunningPlan, runs, shown, nSends, nRuns, nEdits, serverVars>>
    /\ settleSend(i, [sends[i] EXCEPT
           !.plan = answered(@, "mock"),
           !.generated = orFallback(mockPlanResponse(sends[i].trimmed, shuffle))])
    /\ answers' = answers \cup {answered(sends[i].plan, "mock")}

\* handleRunPlan up to its await
HandleRunPlan ==
    /\ UNCHANGED <<currentInput, chatMessages, lastPrompt, llmMode, llmNotice,
                   isResponding, isGeneratingPlan, sends, shown, answers, nSends,
                   nEdits, serverVars>>
    /\ IF runRefused(planState, isRunningPlan)
       THEN /\ planWarning' = RunWarning
            /\ UNCHANGED <<planState, isRunningPlan, runs, nRuns>>
       ELSE /\ MayRun
            /\ planWarning' = <<>>
            /\ isRunningPlan' = TRUE
            /\ planState' = clearPlanResult(planState)
            /\ nRuns' = nRuns + 1
            /\ runs' = Append(runs, [prompt |-> runPromptOf(planState, lastPrompt),
                                     steps |-> runStepsOf(planState),
                                     call |-> startCall(llmMode)])

\* The rest of handleRunPlan once runPlanWithLLM has returned result
settleRun(j, result) ==
    /\ runs' = Remove(runs, j)
    /\ shown' = [prompt |-> runs[j].prompt, steps |-> runs[j].steps]
    /\ planState' = applyRunResult(planState, result)
    /\ isRunningPlan' = FALSE

\* runPlanWithLLM after await realRunPlan, given the response
runAnswered(j, response) ==
    IF response.ok
    THEN /\ settleRun(j, response.result)
         /\ answers' = answers \cup {answered(runs[j].call, "http")}
         /\ UNCHANGED <<llmMode, llmNotice>>
    ELSE /\ fallBackToMock
         /\ runs' = [runs EXCEPT ![j].call = catchHttpError(@)]
         /\ UNCHANGED <<planState, isRunningPlan, shown, answers>>

\* runPlanWithLLM: the /run-plan request of run j is answered
RunHttpSettles(j, llm) ==
    /\ runs[j].call.phase = "http"
    /\ UNCHANGED <<currentInput, chatMessages, lastPrompt, planWarning,
                   isResponding, isGeneratingPlan, sends, nSends, nRuns, nEdits,
                   serverVars>>
    /\ runAnswered(j, apiRunPlan(runRequestBody(runs[j].prompt, runs[j].steps), llm))

\* runPlanWithLLM: the timer of mockRunPlan fires
RunMockSettles(j, k) ==
    /\ runs[j].call.phase = "mock"
    /\ UNCHANGED <<currentInput, chatMessages, lastPrompt, llmMode, llmNotice,
                   planWarning, isResponding, isGeneratingPlan, sends, nSends,
                   nRuns, nEdits, serverVars>>
    /\ settleRun(j, mockRunPlan(runs[j].prompt, runs[j].steps, k))
    /\ answers' = answers \cup {answered(runs[j].call, "mock")}

\* A step edit: setPlanState alone.
editPlan(next) ==
    /\ MayEdit
    /\ nEdits' = nEdits + 1
    /\ planState' = next
    /\ UNCHANGED <<currentInput, chatMessages, lastPrompt, llmMode, llmNotice,
                   planWarning, isResponding, isGeneratingPlan, isRunningPlan,
                   sends, runs, shown, answers, nSends, nRuns, serverVars>>

\* onChange of a step's text field
UpdateStepText(idx, text) ==
    /\ planState.steps[idx] # text
    /\ editPlan(updateStepTextUpdater(planState, idx, text))

RemoveStep(idx) == editPlan(removeStepUpdater(planState, idx))

AddStep ==
    /\ Len(planState.steps) < MaxSteps
    /\ editPlan(addStepUpdater(planState, lastPrompt))

MoveStep(idx, direction) == editPlan(moveStepUpdater(planState, idx, direction))

StepIndices == 1..Len(planState.steps)

Next ==
    \/ \E text \in Inputs : SetCurrentInput(text)
    \/ SendButton
    \/ HandleKeyDown
    \/ \E i \in 1..Len(sends), llm \in ChatAnswers : ChatHttpSettles(i, llm)
    \/ \E i \in 1..Len(sends), k \in RandomDraws : ChatMockSettles(i, k)
    \/ \E i \in 1..Len(sends), llm \in PlanAnswers : PlanHttpSettles(i, llm)
    \/ \E i \in 1..Len(sends), shuffle \in Shuffles : PlanMockSettles(i, shuffle)
    \/ HandleRunPlan
    \/ \E j \in 1..Len(runs), llm \in RunAnswers : RunHttpSettles(j, llm)
    \/ \E j \in 1..Len(runs), k \in RandomDraws : RunMockSettles(j, k)
    \/ \E idx \in StepIndices, text \in EditTexts : UpdateStepText(idx, text)
    \/ \E idx \in StepIndices : RemoveStep(idx)
    \/ AddStep
    \/ \E idx \in StepIndices, direction \in {"up", "down"} : MoveStep(idx, direction)

Spec == Init /\ [][Next]_vars

\* A model call settles: the backend answers or fails, or the timer of a
\* mock fires.
CallSettles ==
    \/ \E i \in 1..Len(sends), llm \in ChatAnswers : ChatHttpSettles(i, llm)
    \/ \E i \in 1..Len(sends), k \in RandomDraws : ChatMockSettles(i, k)
    \/ \E i \in 1..Len(sends), llm \in PlanAnswers : PlanHttpSettles(i, llm)
    \/ \E i \in 1..Len(sends), shuffle \in Shuffles : PlanMockSettles(i, shuffle)
    \/ \E j \in 1..Len(runs), llm \in RunAnswers : RunHttpSettles(j, llm)
    \/ \E j \in 1..Len(runs), k \in RandomDraws : RunMockSettles(j, k)

\* A call waits for the backend or for the timer of a mock: the guards of
\* CallSettles, which is enabled exactly then.
callWaits ==
    \/ \E i \in 1..Len(sends) :
           \/ sends[i].chat.phase \in {"http", "mock"}
           \/ sends[i].plan.phase \in {"http", "mock"}
    \/ \E j \in 1..Len(runs) : runs[j].call.phase \in {"http", "mock"}

\* Every model call eventually resolves or rejects: weak fairness of
\* CallSettles, with its enabling condition written out as callWaits.
FairSpec == Spec /\ ([]<>~callWaits \/ []<><<CallSettles>>_vars)

(***************************************************************************)
(* POST /api/plan on its own: every text the model may return              *)
(***************************************************************************)
MaxTokens == 4

PlanTokens ==
    {<<"{", "\"", "s", "t", "e", "p", "s", "\"", ":", "[">>,
     <<"]", "}">>,
     <<"\"", "A", "\"">>,
     <<",">>,
     <<"{", "\"", "t", "e", "x", "t", "\"", ":", "\"", "B", "\"", "}">>,
     <<"n", "u", "l", "l">>,
     <<"x">>,
     <<"{">>,
     <<"}">>}

RECURSIVE Concat(_)
Concat(list) == IF Len(list) = 0 THEN <<>> ELSE list[1] \o Concat(Tail(list))

PlanTexts ==
    UNION {{Concat(toks) : toks \in [1..n -> PlanTokens]} : n \in 0..MaxTokens}

InitPlanApi ==
    /\ currentInput = <<>>
    /\ chatMessages = <<>>
    /\ planState = [originalPrompt |-> Null, steps |-> <<>>,
                    hasRun |-> FALSE, planResult |-> Null]
    /\ lastPrompt = <<>>
    /\ llmMode = "http"
    /\ llmNotice = <<>>
    /\ planWarning = <<>>
    /\ isResponding = FALSE
    /\ isGeneratingPlan = FALSE
    /\ isRunningPlan = FALSE
    /\ sends = <<>>
    /\ runs = <<>>
    /\ shown = [prompt |-> Null, steps |-> <<>>]
    /\ answers = {}
    /\ nSends = 0
    /\ nRuns = 0
    /\ nEdits = 0
    /\ planText \in PlanTexts
    /\ planReply = NoReply
    /\ functionsAtRest

\* What the handler of POST /api/plan computes from jsonSteps
replyOf(jsonSteps, text) ==
    [done |-> TRUE,
     jsonSteps |-> jsonSteps,
     usedLines |-> jsonSteps.isNull,
     steps |-> stripAll(orLines(jsonSteps, text))]

\* The handler of POST /api/plan from the model's answer planText on:
\* jsonSteps, listSteps (toStepsFromLines only for a null jsonSteps) and steps.
PostApiPlan ==
    /\ ~planReply.done
    /\ planReply' = replyOf(parseJsonSteps(planText), planText)
    /\ UNCHANGED <<planText, appVars, functionVars>>

SpecPlanApi == InitPlanApi /\ [][PostApiPlan]_vars

(***************************************************************************)
(* The pure functions on their own                                         *)
(***************************************************************************)
\* The App component as it is mounted, with no call made
appAtRest ==
    /\ currentInput = <<>>
    /\ chatMessages = <<>>
    /\ planState = [originalPrompt |-> Null, steps |-> <<>>,
                    hasRun |-> FALSE, planResult |-> Null]
    /\ lastPrompt = <<>>
    /\ llmMode = "http"
    /\ llmNotice = <<>>
    /\ planWarning = <<>>
    /\ isResponding = FALSE
    /\ isGeneratingPlan = FALSE
    /\ isRunningPlan = FALSE
    /\ sends = <<>>
    /\ runs = <<>>
    /\ shown = [prompt |-> Null, steps |-> <<>>]
    /\ answers = {}
    /\ nSends = 0
    /\ nRuns = 0
    /\ nEdits = 0

(***************************************************************************)
(* toStepsFromLines and normalizeSteps: every text of a few tokens         *)
(***************************************************************************)
MaxLineTokens == 4

LineTokens ==
    {<<"-">>, <<" ">>, <<"1", ".">>, <<"x">>, <<"\n">>, <<"\"">>,
     <<"H", "e", "r", "e", " ", "i", "s">>,
     <<"s", "t", "e", "p", "s", ":">>,
     <<"[">>}

LineTexts ==
    UNION {{Concat(toks) : toks \in [1..n -> LineTokens]} : n \in 0..MaxLineTokens}

InitSteps ==
    /\ appAtRest
    /\ planText = <<>>
    /\ planReply = NoReply
    /\ coerceRun = [stage |-> "none"]
    /\ scan = [stage |-> "none"]
    /\ \E text \in LineTexts :
           stepsRun = [stage |-> "text", text |-> text, extracted |-> <<>>,
                       once |-> <<>>, twice |-> <<>>]

\* The server extracts the steps of the text.
ExtractSteps ==
    /\ stepsRun.stage = "text"
    /\ stepsRun' = [stepsRun EXCEPT !.stage = "extracted",
                                    !.extracted = toStepsFromLines(stepsRun.text)]
    /\ UNCHANGED <<appVars, planText, planReply, coerceRun, scan>>

\* The client normalizes the lines of the text as a step list.
NormalizeOnce ==
    /\ stepsRun.stage = "extracted"
    /\ stepsRun' = [stepsRun EXCEPT !.stage = "once",
                                    !.once = normalizeSteps(SplitLines(stepsRun.text))]
    /\ UNCHANGED <<appVars, planText, planReply, coerceRun, scan>>

\* The client normalizes the normalized list.
NormalizeAgain ==
    /\ stepsRun.stage = "once"
    /\ stepsRun' = [stepsRun EXCEPT !.stage = "twice",
                                    !.twice = normalizeSteps(stepsRun.once)]
    /\ UNCHANGED <<appVars, planText, planReply, coerceRun, scan>>

NextSteps == ExtractSteps \/ NormalizeOnce \/ NormalizeAgain

SpecSteps == InitSteps /\ [][NextSteps]_vars

(***************************************************************************)
(* coerceStep and pickText: every entry of a few members                   *)
(***************************************************************************)
MaxMembers == 2

\* The six keys the coercer reads, in its order, and one it does not read
EntryKeys ==
    <<<<"t", "e", "x", "t">>,
     <<"c", "o", "n", "t", "e", "n", "t">>,
     <<"t", "i", "t", "l", "e">>,
     <<"d", "e", "s", "c", "r", "i", "p", "t", "i", "o", "n">>,
     <<"s", "t", "e", "p">>,
     <<"v", "a", "l", "u", "e">>,
     <<"i", "d">>>>

EntryValues ==
    {JStr(<<>>), JStr(<<"a">>), JNull, JNum(<<"0">>), JNum(<<"7">>),
     JBool(FALSE), JBool(TRUE), JArr(<<>>), JObj(<<>>)}

EntryMembers == {[k |-> EntryKeys[i], v |-> val] : i \in 1..7, val \in EntryValues}

\* An element of a steps array: a JSON value, or nothing at all
Entries ==
    EntryValues \cup {Undefined}
        \cup {JObj(m) : m \in UNION {[1..n -> EntryMembers] : n \in 1..MaxMembers}}

InitCoerce ==
    /\ appAtRest
    /\ planText = <<>>
    /\ planReply = NoReply
    /\ stepsRun = [stage |-> "none"]
    /\ scan = [stage |-> "none"]
    /\ \E entry \in Entries :
           coerceRun = [stage |-> "entry", entry |-> entry,
                        coerced |-> Null, picked |-> Null]

\* The server coerces the entry.
CoerceOnServer ==
    /\ coerceRun.stage = "entry"
    /\ coerceRun' = [coerceRun EXCEPT !.stage = "coerced",
                                      !.coerced = coerceStep(coerceRun.entry)]
    /\ UNCHANGED <<appVars, planText, planReply, stepsRun, scan>>

\* The client picks the text of the same entry.
PickOnClient ==
    /\ coerceRun.stage = "coerced"
    /\ coerceRun' = [coerceRun EXCEPT !.stage = "picked",
                                      !.picked = pickText(coerceRun.entry)]
    /\ UNCHANGED <<appVars, planText, planReply, stepsRun, scan>>

NextCoerce == CoerceOnServer \/ PickOnClient

SpecCoerce == InitCoerce /\ [][NextCoerce]_vars

(***************************************************************************)
(* Client: toDisplayBlocks                                                 *)
(***************************************************************************)
Paragraph(text) == [type |-> "paragraph", text |-> text]

ListBlock(items) == [type |-> "list", items |-> items]

SectionBlock(title, content) ==
    [type |-> "section", title |-> title, content |-> content]

\* let currentSection = null
NoSection == [open |-> FALSE, title |-> <<>>, lines |-> <<>>]

\* text.split("\n").map((l) => l.trim()).filter(Boolean)
displayLines(text) ==
    SelectSeq([i \in 1..Len(SplitLines(text)) |-> Trim(SplitLines(text)[i])],
              NonEmpty)

\* bulletRegex /^(\*|-|U+2022|\d+[.)])/ : the index after the match, 0 when
\* there is none.
bulletRegexEnd(line) ==
    LET d == SkipWhile(line, 1, IsDigit)
    IN  IF Len(line) = 0 THEN 0
        ELSE IF d > 1 /\ d <= Len(line) /\ line[d] \in {".", ")"} THEN d + 1
        ELSE IF line[1] \in {"*", "-", Bullet} THEN 2
        ELSE 0

\* line.replace(bulletRegex, "").trim()
stripBulletRegex(line) ==
    IF bulletRegexEnd(line) = 0 THEN Trim(line)
    ELSE Trim(From(line, bulletRegexEnd(line)))

\* The labels of sectionRegex that take a number, and those that do not
NumberedLabels ==
    <<<<"d", "a", "y", " ">>,
     <<"e", "v", "e", "n", "i", "n", "g", " ">>,
     <<"p", "h", "a", "s", "e", " ">>,
     <<"s", "t", "e", "p", " ">>,
     <<"w", "e", "e", "k", " ">>,
     <<"s", "e", "c", "t", "i", "o", "n", " ">>>>

FixedLabels ==
    <<<<"m", "e", "a", "l", " ", "p", "r", "e", "p">>,
     <<"b", "r", "e", "a", "k", "f", "a", "s", "t">>,
     <<"l", "u", "n", "c", "h">>,
     <<"d", "i", "n", "n", "e", "r">>,
     <<"k", "e", "y", " ", "d", "e", "c", "i", "s", "i", "o", "n", "s">>,
     <<"a", "s", "s", "u", "m", "p", "t", "i", "o", "n", "s">>,
     <<"n", "o", "t", "e", "s">>,
     <<"c", "o", "n", "c", "l", "u", "s", "i", "o", "n">>>>

\* (.*)$ matches from i to the end: no line terminator is left.
restOnOneLine(line, i) == \A k \in i..Len(line) : line[k] \notin {"\n", "\r"}

\* Where the label ends, given the line in lower case (the i flag)
labelEnd(low) ==
    LET numbered == {i \in 1..6 :
                        /\ StartsWithAt(low, 1, NumberedLabels[i])
                        /\ Len(low) > Len(NumberedLabels[i])
                        /\ IsDigit(low[Len(NumberedLabels[i]) + 1])}
        fixed == {i \in 1..8 : StartsWithAt(low, 1, FixedLabels[i])}
    IN  IF numbered # {}
        THEN SkipWhile(low, Len(NumberedLabels[CHOOSE i \in numbered : TRUE]) + 1,
                       IsDigit) - 1
        ELSE IF fixed # {} THEN Len(FixedLabels[CHOOSE i \in fixed : TRUE])
        ELSE 0

\* line.match(sectionRegex): the index of the last character of the captured
\* label sectionMatch[1], 0 when the line does not match.
sectionLabelEnd(line) ==
    LET end == labelEnd(ToLower(line))
    IN  IF /\ end > 0
           /\ restOnOneLine(line, SkipWhile(line, end + 1,
                                            LAMBDA c : IsSpace(c) \/ c = ":"))
        THEN end ELSE 0

\* A title that keeps the text after the label
wholeLineTitle(line) == line

\* sectionMatch[1]
sectionTitle(line) == SubSeq(line, 1, sectionLabelEnd(line))

\* keyDecisionsRegex /^\*{2}(.*?)\*{2}$/
keyDecisionsMatch(line) ==
    /\ Len(line) >= 4
    /\ line[1] = "*" /\ line[2] = "*"
    /\ line[Len(line) - 1] = "*" /\ line[Len(line)] = "*"
    /\ restOnOneLine(line, 1)

RECURSIVE removeStarPairs(_)
\* line.replace(/\*{2}/g, "")
removeStarPairs(s) ==
    IF Len(s) = 0 THEN <<>>
    ELSE IF Len(s) >= 2 /\ s[1] = "*" /\ s[2] = "*" THEN removeStarPairs(From(s, 3))
    ELSE <<s[1]>> \o removeStarPairs(Tail(s))

\* if (currentList.length) { blocks.push({type: "list", ...}); currentList = [] }
pushList(blocks, list) ==
    IF Len(list) > 0 THEN Append(blocks, ListBlock(list)) ELSE blocks

\* A push that leaves the paragraph out
dropParagraph(blocks, line) == blocks

\* if (line) blocks.push({ type: "paragraph", text: line })
pushParagraph(blocks, line) ==
    IF Len(line) > 0 THEN Append(blocks, Paragraph(line)) ELSE blocks

RECURSIVE sectionBlocksOf(_, _, _)
\* The forEach of flushSection over the lines left, with sectionBlocks and
\* sectionList as they are, and the push of the last list after it
sectionBlocksOf(lines, sectionBlocks, sectionList) ==
    IF Len(lines) = 0 THEN pushList(sectionBlocks, sectionList)
    ELSE IF bulletRegexEnd(Head(lines)) > 0
    THEN sectionBlocksOf(Tail(lines), sectionBlocks,
                         Append(sectionList, stripBulletRegex(Head(lines))))
    ELSE sectionBlocksOf(Tail(lines),
                         pushParagraph(pushList(sectionBlocks, sectionList),
                                       Head(lines)),
                         <<>>)

\* A content that wraps the blocks of the section in a section
nestedContent(sectionBlocks) ==
    <<SectionBlock(<<>>, sectionBlocks)>>

\* sectionBlocks.length ? sectionBlocks : [{ type: "paragraph", text: "" }]
sectionContent(sectionBlocks) ==
    IF Len(sectionBlocks) > 0 THEN sectionBlocks ELSE <<Paragraph(<<>>)>>

\* A flush that leaves the list open
keepList(st) == st

flushList(st) ==
    [st EXCEPT !.blocks = pushList(st.blocks, st.currentList),
               !.currentList = <<>>]

flushSection(st) ==
    IF st.currentSection.open
    THEN [st EXCEPT !.blocks =
                        Append(st.blocks,
                               SectionBlock(st.currentSection.title,
                                   sectionContent(
                                       sectionBlocksOf(st.currentSection.lines,
                                                       <<>>, <<>>)))),
                    !.currentSection = NoSection]
    ELSE st

\* An opening that drops the open section instead of closing it
openOverSection(st, title) ==
    [flushList(st) EXCEPT
        !.currentSection = [open |-> TRUE, title |-> title, lines |-> <<>>]]

\* flushList(); flushSection(); currentSection = { title, lines: [] }
openSection(st, title) ==
    [flushSection(flushList(st)) EXCEPT
        !.currentSection = [open |-> TRUE, title |-> title, lines |-> <<>>]]

\* The body of lines.forEach
scanLine(st, line) ==
    IF sectionLabelEnd(line) > 0 THEN openSection(st, sectionTitle(line))
    ELSE IF st.currentSection.open
    THEN IF keyDecisionsMatch(line) THEN openSection(st, removeStarPairs(line))
         ELSE [st EXCEPT !.currentSection.lines = Append(@, line)]
    ELSE IF bulletRegexEnd(line) > 0
    THEN [st EXCEPT !.currentList = Append(@, stripBulletRegex(line))]
    ELSE [flushList(st) EXCEPT !.blocks = pushParagraph(@, line)]

\* A fallback that holds the trimmed text
orTrimmedText(blocks, text) ==
    IF Len(blocks) > 0 THEN blocks ELSE <<Paragraph(Trim(text))>>

\* return blocks.length ? blocks : [{ type: "paragraph", text }]
orOriginalText(blocks, text) ==
    IF Len(blocks) > 0 THEN blocks ELSE <<Paragraph(text)>>

(***************************************************************************)
(* toDisplayBlocks on its own: every text of a few lines                   *)
(***************************************************************************)
MaxBlockLines == 4

BlockTokens ==
    {<<"D", "a", "y", " ", "1", ":", " ", "x", "\n">>,
     <<"l", "u", "n", "c", "h", "\n">>,
     <<"-", " ", "a", "\n">>,
     <<" ", "2", ")", "b", " ", "\n">>,
     <<"*", "*", "T", "*", "*", "\n">>,
     <<"p", "\n">>,
     <<" ", "\n">>}

BlockTexts ==
    UNION {{Concat(toks) : toks \in [1..n -> BlockTokens]} : n \in 0..MaxBlockLines}

InitBlocks ==
    /\ appAtRest
    /\ planText = <<>>
    /\ planReply = NoReply
    /\ stepsRun = [stage |-> "none"]
    /\ coerceRun = [stage |-> "none"]
    /\ \E text \in BlockTexts :
           scan = [stage |-> "scanning", text |-> text,
                   lines |-> displayLines(text), index |-> 1,
                   blocks |-> <<>>, currentList |-> <<>>,
                   currentSection |-> NoSection, result |-> <<>>]

\* One turn of lines.forEach
ScanLine ==
    /\ scan.stage = "scanning"
    /\ scan.index <= Len(scan.lines)
    /\ scan' = [scanLine(scan, scan.lines[scan.index]) EXCEPT !.index = @ + 1]
    /\ UNCHANGED <<appVars, planText, planReply, stepsRun, coerceRun>>

\* flushList(); flushSection(); return
ReturnBlocks ==
    /\ scan.stage = "scanning"
    /\ scan.index > Len(scan.lines)
    /\ scan' = [flushSection(flushList(scan)) EXCEPT
                   !.stage = "returned",
                   !.result = orOriginalText(flushSection(flushList(scan)).blocks,
                                             scan.text)]
    /\ UNCHANGED <<appVars, planText, planReply, stepsRun, coerceRun>>

NextBlocks == ScanLine \/ ReturnBlocks

SpecBlocks == InitBlocks /\ [][NextBlocks]_vars

(***************************************************************************)
(* Properties                                                              *)
(***************************************************************************)
\* The model calls that have started and not returned
callsPending ==
    {sends[i].chat : i \in 1..Len(sends)} \cup {sends[i].plan : i \in 1..Len(sends)}
        \cup {runs[j].call : j \in 1..Len(runs)}

assistantCount ==
    Cardinality({i \in 1..Len(chatMessages) : chatMessages[i].role = "assistant"})

HttpAnswer ==
    [phase |-> "done", startMode |-> "http", httpRequests |-> 1, failed |-> FALSE,
     answeredBy |-> "http"]

MockAfterFailure ==
    [phase |-> "done", startMode |-> "http", httpRequests |-> 1, failed |-> TRUE,
     answeredBy |-> "mock"]

\* C1: a run result that arrives late is never shown as current for a plan
\* that has changed: whenever planResult is non-null with hasRun true, the
\* prompt and the step list of the plan are those sent with the run call
\* that produced the result.
LateResultNotShownForChangedPlan ==
    (planState.planResult # Null /\ planState.hasRun)
        => (shown.steps = planState.steps /\ shown.prompt = planState.originalPrompt)

\* C2: in every reachable state planResult is non-null only if hasRun is true.
PlanResultOnlyWithHasRun == planState.planResult # Null => planState.hasRun

\* A result stands while a submission waits and after a step edit.
ResultWhileSubmissionWaits ==
    /\ planState.planResult # Null
    /\ planState.hasRun
    /\ Len(sends) > 0
    /\ nEdits > 0

\* C3: every step that changes the steps or the prompt of the plan, and
\* every step in which handleSend accepts a prompt, leaves planResult null
\* and hasRun false.
ChangeInvalidatesResult ==
    [][(\/ planState'.steps # planState.steps
        \/ planState'.originalPrompt # planState.originalPrompt
        \/ nSends' # nSends)
          => (planState'.planResult = Null /\ ~planState'.hasRun)]_vars

\* One submission, one run of its plan (two steps or more) that returned,
\* then one edit: the result the run set is gone.
ResultInvalidatedByEdit ==
    /\ nSends = 1 /\ sends = <<>>
    /\ nRuns = 1 /\ runs = <<>>
    /\ nEdits = 1
    /\ Len(shown.steps) >= 2
    /\ planState.steps # shown.steps
    /\ planState.planResult = Null
    /\ ~planState.hasRun

\* Every call started while llmMode is "mock" makes no HTTP request and is
\* answered by the mock; after a failed HTTP call llmMode is "mock".
MockCallsStayLocal ==
    \A c \in callsPending \cup answers :
        /\ c.startMode = "mock"
             => (c.httpRequests = 0 /\ c.phase # "http" /\ c.answeredBy # "http")
        /\ c.failed => llmMode = "mock"

\* C4: the fallback mode is a one-way latch: a failed HTTP call of any kind
\* leaves llmMode "mock", llmMode never goes from "mock" to "http", and a
\* call started in "mock" mode is answered by the mock without any HTTP
\* request.
FallbackIsLatched ==
    /\ []MockCallsStayLocal
    /\ [][llmMode = "mock" => llmMode' = "mock"]_vars

\* After a failure latched the mode, a later call started in "mock" mode and
\* was answered by the mock.
MockCallAfterLatch ==
    /\ llmMode = "mock"
    /\ llmNotice = FallbackNotice
    /\ MockAfterFailure \in answers
    /\ \E c \in answers : c.startMode = "mock" /\ c.answeredBy = "mock"

\* C5: after any submission completes (both calls joined and the plan
\* installed) planState.steps is non-empty.
SubmissionLeavesSteps ==
    [][Len(sends') < Len(sends) => Len(planState'.steps) > 0]_vars

\* A failed call waits for the mock or was answered by it, after one HTTP
\* request; what it hands on is the mock's output; the notice is set.
FailedCallUsesMock ==
    /\ \A c \in callsPending \cup answers :
          c.failed => /\ c.httpRequests = 1
                      /\ c.phase \in {"mock", "done"}
                      /\ c.phase = "done" => c.answeredBy = "mock"
                      /\ llmNotice = FallbackNotice
    /\ \A i \in 1..Len(sends) :
          /\ (sends[i].chat.failed /\ IsDone(sends[i].chat))
                => \E k \in RandomDraws :
                       sends[i].reply = mockChatResponse(sends[i].trimmed, k)
          /\ (sends[i].plan.failed /\ IsDone(sends[i].plan))
                => \E shuffle \in Shuffles :
                       sends[i].generated
                           = orFallback(mockPlanResponse(sends[i].trimmed, shuffle))

\* A run whose HTTP call failed ends with the mock's result in the plan.
FailedRunEndsWithMockResult ==
    \A j \in 1..Len(runs) :
        (runs[j].call.failed /\ Len(runs') < Len(runs))
            => /\ \E k \in RandomDraws :
                      planState'.planResult = mockRunPlan(runs[j].prompt, runs[j].steps, k)
               /\ planState'.hasRun
               /\ ~isRunningPlan'

\* C6: a failed HTTP model call does not abort the user's action: the call
\* goes on to the mock without another HTTP request, the action completes
\* with the mock's output, and llmNotice holds the one-line notice.
FailureFallsBackToMock ==
    /\ []FailedCallUsesMock
    /\ [][FailedRunEndsWithMockResult]_vars

\* One submission answered over HTTP, then a run whose HTTP call failed and
\* that the mock completed.
FailedRunCompletedByMock ==
    /\ nSends = 1 /\ sends = <<>>
    /\ nRuns = 1 /\ runs = <<>>
    /\ answers = {HttpAnswer, MockAfterFailure}
    /\ chatMessages[2].content = NoResponseText
    /\ planState.planResult = mockRunPlan(shown.prompt, shown.steps, 0)
    /\ planState.hasRun
    /\ llmNotice = FallbackNotice
    /\ ~isRunningPlan

\* C7: the assistant message is appended and the plan of a submission is
\* installed only in the step in which the second of its two calls
\* finishes, both in that one step; the calls finish in either order.
ResultsAppliedAtJoin ==
    [][LET joined == Len(sends') < Len(sends)
           said == /\ Len(chatMessages') > Len(chatMessages)
                   /\ chatMessages'[Len(chatMessages')].role = "assistant"
           installed == /\ nEdits' = nEdits
                        /\ \/ planState'.steps # planState.steps
                           \/ planState'.originalPrompt # planState.originalPrompt
       IN  /\ said => joined
           /\ installed => joined
           /\ joined => \E i \in 1..Len(sends) :
                 /\ sends' = Remove(sends, i)
                 /\ IsDone(sends[i].chat) \/ IsDone(sends[i].plan)
                 /\ said
                 /\ Len(chatMessages') = Len(chatMessages) + 1
                 /\ planState'.originalPrompt = sends[i].trimmed
                 /\ planState'.planResult = Null
                 /\ ~planState'.hasRun]_vars

\* The first submission has joined; of the second the plan call has
\* finished before the chat call, and its plan is not installed.
PlanCallFinishedFirst ==
    /\ nSends = 2
    /\ Len(sends) = 1
    /\ IsDone(sends[1].plan)
    /\ ~IsDone(sends[1].chat)
    /\ assistantCount = 1
    /\ planState.originalPrompt = Trim(Prompts[1])

\* C8: at most one run-plan call is in flight at any time, whenever
\* handleRunPlan is triggered, and isRunningPlan is true while it is.
OneRunInFlight == Len(runs) <= 1 /\ (Len(runs) = 1 => isRunningPlan)

\* handleRunPlan was triggered while a run waited, and refused.
RunRefusedWhileRunning ==
    /\ isRunningPlan
    /\ Len(runs) = 1
    /\ planWarning = RunWarning

\* C9: the step list sent with a run request, and listed in the execution
\* prompt numbered 1..n, is the plan's step list at the moment Run was
\* triggered, in the same order.
RunSendsCurrentSteps ==
    [][Len(runs') > Len(runs) =>
         LET r == runs'[Len(runs')]
             body == runRequestBody(r.prompt, r.steps)
             n == Len(planState.steps)
         IN  /\ body.steps = planState.steps
             /\ body.prompt = planState.originalPrompt
             /\ SplitLines(runPrompt(body.prompt, body.steps).stepText)
                    = IF n = 0 THEN <<<<>>>>
                      ELSE [i \in 1..n |-> NatToStr(i) \o <<".", " ">> \o planState.steps[i]]]_vars

\* A run of the plan "A", "B" after the steps were swapped and "A" removed.
RunAfterMoveAndRemove ==
    /\ Len(runs) = 1
    /\ nEdits = 2
    /\ runs[1].steps = <<<<"B">>>>
    /\ runPrompt(runs[1].prompt, runs[1].steps).stepText = <<"1", ".", " ", "B">>

\* The JSON value parseJsonSteps reads "steps" from: that of the whole text
\* or, where the whole text does not parse, that of the block from the
\* first "{" to the last "}"; Failed where neither parses.
parsedJson ==
    IF JSONParse(planText).ok THEN JSONParse(planText)
    ELSE IF hasJsonBlock(planText) /\ JSONParse(jsonBlock(planText)).ok
         THEN JSONParse(jsonBlock(planText))
         ELSE Failed

stepsEntry == GetField(parsedJson.val, <<"s", "t", "e", "p", "s">>)

trimmedLines ==
    SelectSeq([i \in 1..Len(SplitLines(stepsRun.text)) |->
                  Trim(SplitLines(stepsRun.text)[i])], NonEmpty)

\* Those that are no introductory phrase, no "steps:" key line and no bare
\* bracket, each with its leading marker removed and trimmed
strippedLines ==
    LET surviving == SelectSeq(trimmedLines,
                         LAMBDA l : /\ ~isIntroLine(l)
                                    /\ ~isStepsKeyLine(l)
                                    /\ ~isBarePunctuation(l))
    IN  [i \in 1..Len(surviving) |-> Trim(stripBullet(surviving[i]))]

\* C11: toStepsFromLines returns, in input order, the trimmed non-empty
\* lines that are no introductory phrase, no "steps:" key line and no bare
\* bracket, each with one leading marker removed and dropped if then empty;
\* the default list when none survives; never an empty list.
StepsFromLinesAreTheItemLines ==
    stepsRun.stage \in {"extracted", "once", "twice"} =>
        /\ stepsRun.extracted =
               IF SelectSeq(strippedLines, NonEmpty) = <<>> THEN DefaultSteps
               ELSE SelectSeq(strippedLines, NonEmpty)
        /\ Len(stepsRun.extracted) > 0

\* An introductory line and a key line are left out, a line that is only a
\* marker is dropped, and the one item is returned without its marker.
ItemAmongFilteredLines ==
    /\ stepsRun.stage = "extracted"
    /\ Len(trimmedLines) = 2
    /\ isIntroLine(trimmedLines[1])
    /\ stepsRun.extracted = <<<<"x">>>>
    /\ bulletMatchEnd(trimmedLines[2]) > 0

\* Every line filtered: the default list
DefaultForFilteredLines ==
    /\ stepsRun.stage = "extracted"
    /\ Len(trimmedLines) > 0
    /\ stepsRun.extracted = DefaultSteps

\* C12: every string the text normalizer produces (the items of
\* toStepsFromLines and of normalizeSteps) has no leading bullet or
\* numbering marker and no leading or trailing white space.
NormalizedHasNoMarker ==
    stepsRun.stage \in {"once", "twice"} =>
        \A list \in {stepsRun.extracted, stepsRun.once} :
            \A i \in 1..Len(list) :
                /\ bulletMatchEnd(list[i]) = 0
                /\ Trim(list[i]) = list[i]

\* C13: normalizing a normalized step list returns the same list.
NormalizeIsIdempotent ==
    stepsRun.stage = "twice" => stepsRun.twice = stepsRun.once

\* The keys among the six that the entry of coerceRun holds
fieldsPresent ==
    {i \in 1..6 : \E j \in 1..Len(coerceRun.entry.v) :
                      coerceRun.entry.v[j].k = EntryKeys[i]}

\* What the claim gives for the entry of coerceRun: the entry itself for a
\* string, the text of the first non-empty field for a mapping that has
\* one, the empty string for an absent entry and for a mapping with none
\* of the six fields.  Other entries are left open.
coercedAsClaimed(result) ==
    CASE coerceRun.entry.t = "string" -> result = coerceRun.entry.v
      [] coerceRun.entry.t \in {"null", "undefined"} -> result = <<>>
      [] coerceRun.entry.t = "object" /\ fieldsPresent = {} -> result = <<>>
      [] coerceRun.entry.t = "object" /\ Truthy(firstTruthyField(coerceRun.entry)) ->
             result = JsString(firstTruthyField(coerceRun.entry))
      [] OTHER -> TRUE

\* C14: coerceStep and pickText return a string: a string entry unchanged,
\* for a mapping the first non-empty of text, content, title, description,
\* step, value as text, and the empty string for an absent entry and for a
\* mapping with none of these fields.
CoercedEntryAsClaimed ==
    /\ coerceRun.stage \in {"coerced", "picked"} => coercedAsClaimed(coerceRun.coerced)
    /\ coerceRun.stage = "picked" => coercedAsClaimed(coerceRun.picked)

(***************************************************************************)
(* toDisplayBlocks                                                         *)
(***************************************************************************)
\* The line matches a section header.
isHeader(line) == sectionLabelEnd(line) > 0

\* The lines that match a section header
headerLines == {i \in 1..Len(scan.lines) : isHeader(scan.lines[i])}

\* The lines that open a section: the headers, and after the first header
\* the lines wrapped in "**"
headingLines ==
    headerLines \cup
        {i \in 1..Len(scan.lines) :
            /\ keyDecisionsMatch(scan.lines[i])
            /\ \E j \in headerLines : j < i}

\* title is the label at the start of the line, in the line's own case,
\* with all the digits that follow a numbered label.
isCapturedLabel(title, line) ==
    /\ StartsWithAt(line, 1, title)
    /\ \/ \E i \in 1..8 : ToLower(title) = FixedLabels[i]
       \/ \E i \in 1..6 :
              /\ StartsWithAt(ToLower(title), 1, NumberedLabels[i])
              /\ Len(title) > Len(NumberedLabels[i])
              /\ \A k \in (Len(NumberedLabels[i]) + 1)..Len(title) : IsDigit(title[k])
              /\ ~(Len(line) > Len(title) /\ IsDigit(line[Len(title) + 1]))

\* The title a heading line gives its section
isTitleOf(title, line) ==
    IF isHeader(line) THEN isCapturedLabel(title, line)
    ELSE title = removeStarPairs(line)

\* What each line of a section stands for: an item or a text
lineMarks(segment) ==
    [i \in 1..Len(segment) |->
        IF bulletRegexEnd(segment[i]) > 0
        THEN <<"item", stripBulletRegex(segment[i])>>
        ELSE <<"text", segment[i]>>]

RECURSIVE blockMarks(_)
\* The same for the blocks of a content, each list giving its items
blockMarks(content) ==
    IF Len(content) = 0 THEN <<>>
    ELSE (CASE Head(content).type = "paragraph" ->
                   <<<<"text", Head(content).text>>>>
            [] Head(content).type = "list" ->
                   [j \in 1..Len(Head(content).items) |->
                       <<"item", Head(content).items[j]>>]
            [] OTHER -> <<<<"section", <<>>>>>>)
         \o blockMarks(Tail(content))

\* The content holds the lines of the segment in order, each run of bullet
\* lines as one list; an empty segment gives one empty paragraph.
contentIs(content, segment) ==
    IF Len(segment) = 0 THEN content = <<Paragraph(<<>>)>>
    ELSE /\ blockMarks(content) = lineMarks(segment)
         /\ \A i \in 1..Len(content) :
                content[i].type = "list" =>
                    /\ Len(content[i].items) > 0
                    /\ i < Len(content) => content[i + 1].type # "list"

\* The Section blocks of the result
sectionsReturned == SelectSeq(scan.result, LAMBDA b : b.type = "section")

\* The Section blocks of the result are, in order, the sections the lines
\* of `heads` open, each holding the lines up to the next line of `heads`.
sectionsFollow(heads) ==
    /\ Len(sectionsReturned) = Cardinality(heads)
    /\ \A k \in 1..Cardinality(heads) :
           LET h == CHOOSE i \in heads : Cardinality({j \in heads : j < i}) = k - 1
               later == {j \in heads : j > h} \cup {Len(scan.lines) + 1}
               next == CHOOSE j \in later : \A l \in later : j <= l
           IN  /\ isTitleOf(sectionsReturned[k].title, scan.lines[h])
               /\ contentIs(sectionsReturned[k].content,
                            SubSeq(scan.lines, h + 1, next - 1))
    /\ 1 \in heads => Len(sectionsReturned) = Len(scan.result)

\* Right after a line of `heads` no list is open and the section it opened
\* is open, titled by the line and empty.
sectionOpenedBy(heads) ==
    (scan.index - 1) \in heads =>
        /\ scan.currentList = <<>>
        /\ scan.currentSection.open
        /\ scan.currentSection.lines = <<>>
        /\ isTitleOf(scan.currentSection.title, scan.lines[scan.index - 1])

\* C15, as stated: a line matching a section header flushes the open list,
\* closes the open section and opens a section titled by the captured
\* label, and the lines up to the next header are that section's content in
\* order, each run of bullet lines as one List: k headers each followed by
\* bullet lines give k Section blocks with one List each.
SectionsRunToNextHeader ==
    /\ scan.stage = "scanning" => sectionOpenedBy(headerLines)
    /\ scan.stage = "returned" => sectionsFollow(headerLines)

\* C15, amended: the same, where inside an open section a line wrapped in
\* "**" counts as a header too, titled by the line without its "**".
SectionsRunToNextHeading ==
    /\ scan.stage = "scanning" => sectionOpenedBy(headingLines)
    /\ scan.stage = "returned" => sectionsFollow(headingLines)

\* A header and, inside its section, a line wrapped in "**", each followed
\* by a bullet line: two sections of one list each
SectionsOfOneListEach ==
    /\ scan.stage = "returned"
    /\ Len(scan.lines) = 4
    /\ headerLines = {1}
    /\ headingLines = {1, 3}
    /\ scan.result = <<SectionBlock(<<"D", "a", "y", " ", "1">>,
                                    <<ListBlock(<<<<"a">>>>)>>),
                       SectionBlock(<<"T">>, <<ListBlock(<<<<"b">>>>)>>)>>

ThreeParagraphs ==
    /\ scan.stage = "returned"
    /\ Len(scan.lines) = 3
    /\ \A i \in 1..3 : scan.result[i].type = "paragraph"
    /\ Len(scan.result) = 3

\* C17: no Section block of toDisplayBlocks holds a Section in its content:
\* the content of a section is Paragraph and List blocks only.
NoSectionInSection ==
    \A list \in {scan.blocks, scan.result} :
        \A i \in 1..Len(list) :
            list[i].type = "section" =>
                \A j \in 1..Len(list[i].content) :
                    list[i].content[j].type \in {"paragraph", "list"}

\* A section returned with a list and a paragraph in its content
SectionOfListAndParagraph ==
    /\ scan.stage = "returned"
    /\ \E i \in 1..Len(scan.result) :
           /\ scan.result[i].type = "section"
           /\ Len(scan.result[i].content) = 2
           /\ scan.result[i].content[1].type = "list"
           /\ scan.result[i].content[2].type = "paragraph"

\* After each line: no list is open while a section is open.
ListOrSectionOpen ==
    scan.stage = "scanning" =>
        ~(Len(scan.currentList) > 0 /\ scan.currentSection.open)

\* A step that opens the first section puts the open list into the blocks.
OpeningFlushesList ==
    (scan.stage = "scanning" /\ ~scan.currentSection.open
        /\ scan'.currentSection.open)
    => /\ scan'.currentList = <<>>
       /\ scan'.blocks = IF Len(scan.currentList) > 0
                         THEN Append(scan.blocks, ListBlock(scan.currentList))
                         ELSE scan.blocks

\* C18: while toDisplayBlocks scans, the open list and the open section
\* exclude each other: after each line it is never so that currentList is
\* non-empty while currentSection is open, and opening a section flushes
\* the open list first.
ListAndSectionExclusive ==
    []ListOrSectionOpen /\ [][OpeningFlushesList]_vars

\* A section has just been opened and the list that was open is a block.
ListFlushedBySection ==
    /\ scan.stage = "scanning"
    /\ (scan.index - 1) \in headerLines
    /\ scan.currentSection.open
    /\ Len(scan.blocks) > 0
    /\ scan.blocks[Len(scan.blocks)].type = "list"
    /\ scan.currentList = <<>>

(***************************************************************************)
(* The chat log                                                            *)
(***************************************************************************)
\* A step of a plan operation: an edit of the steps, the start of a run or
\* the end of one
planOperationStep ==
    nEdits' # nEdits \/ nRuns' # nRuns \/ runs' # runs

\* C19: the chat log is append-only and independent of the plan: every
\* change of chatMessages appends one message at the end and leaves the
\* earlier messages and their order as they were, and no plan operation
\* (handleRunPlan, updateStepText, removeStep, addStep, moveStep) changes it.
ChatLogAppendOnly ==
    [][/\ chatMessages' # chatMessages =>
              /\ Len(chatMessages') = Len(chatMessages) + 1
              /\ SubSeq(chatMessages', 1, Len(chatMessages)) = chatMessages
       /\ planOperationStep => chatMessages' = chatMessages]_vars

\* A user message and its answer in the log, after an edit and a run
LogAfterEditAndRun ==
    /\ Len(chatMessages) = 2
    /\ chatMessages[1].role = "user"
    /\ chatMessages[2].role = "assistant"
    /\ nEdits > 0
    /\ nRuns > 0
    /\ runs = <<>>

(***************************************************************************)
(* Termination of the calls                                                *)
(***************************************************************************)
\* No call is waiting and no busy flag is set.
atRest ==
    /\ sends = <<>>
    /\ runs = <<>>
    /\ ~isResponding
    /\ ~isGeneratingPlan
    /\ ~isRunningPlan

\* Each submission that has come back has one assistant message, and a
\* plan is installed once one has.
oneAnswerEach ==
    /\ assistantCount + Len(sends) = nSends
    /\ assistantCount > 0 => planState.originalPrompt # Null

\* C20: given that every model call eventually resolves or rejects, every
\* accepted submission eventually appends exactly one assistant message,
\* installs a plan and returns isResponding and isGeneratingPlan to false,
\* and every started run eventually returns isRunningPlan to false: no
\* failure of a call leaves a busy flag set.
SubmissionsAndRunsComplete ==
    /\ []oneAnswerEach
    /\ <>[](atRest /\ assistantCount = nSends)
    /\ isResponding ~> ~isResponding
    /\ isGeneratingPlan ~> ~isGeneratingPlan
    /\ isRunningPlan ~> ~isRunningPlan

\* Two submissions answered, a run completed and all at rest, after the
\* backend has failed
RestAfterFailure ==
    /\ atRest
    /\ nSends = 2
    /\ assistantCount = 2
    /\ nRuns = 1
    /\ llmNotice = FallbackNotice
    /\ \E c \in answers : c.failed

(***************************************************************************)
(* Submissions                                                             *)
(***************************************************************************)
\* C21: submissions do not overlap: while one is pending no second one
\* starts, by the Send button or by the Enter key, so at most one chat call
\* and one plan call are in flight, and isResponding and isGeneratingPlan
\* are true for as long as a call of a submission is pending.
SubmissionsDoNotOverlap ==
    /\ Len(sends) <= 1
    /\ sends # <<>> => isResponding /\ isGeneratingPlan

\* C22: whenever no submission is in flight and one has completed, the plan
\* belongs to the latest prompt: planState.originalPrompt is lastPrompt.
PlanBelongsToLatestPrompt ==
    (sends = <<>> /\ assistantCount > 0) => planState.originalPrompt = lastPrompt

(***************************************************************************)
(* handleRunPlan with nothing to run                                       *)
(***************************************************************************)
\* There is nothing to run: no prompt, or no step.
nothingToRun ==
    IsFalsy(planState.originalPrompt) \/ Len(planState.steps) = 0

\* With nothing to run no step starts a run, and the step that sets the
\* warning leaves planState, isRunningPlan and the calls as they are.
NoRunOfNothing ==
    /\ nothingToRun => nRuns' = nRuns /\ Len(runs') <= Len(runs)
    /\ (nothingToRun /\ planWarning' # planWarning /\ planWarning' = RunWarning)
           => /\ planState' = planState
              /\ isRunningPlan' = isRunningPlan
              /\ runs' = runs

\* No run request is waiting with an empty prompt or an empty step list.
runsHaveWork ==
    \A j \in 1..Len(runs) : Len(runs[j].prompt) > 0 /\ Len(runs[j].steps) > 0

\* C23: handleRunPlan issues no model call when there is nothing to run: if
\* originalPrompt is null or empty or the step list is empty it sets
\* planWarning, starts no call and leaves planState and isRunningPlan
\* unchanged, so no run request is sent with an empty prompt or an empty
\* step list.
NothingToRunStartsNoCall ==
    []runsHaveWork /\ [][NoRunOfNothing]_vars

\* A step was added before any submission and Run was pressed: the warning
\* is shown and nothing runs.
RunRefusedAfterAddStep ==
    /\ nSends = 0
    /\ planState.originalPrompt = <<>>
    /\ Len(planState.steps) = 1
    /\ planWarning = RunWarning
    /\ nRuns = 0
    /\ ~isRunningPlan

(***************************************************************************)
(* The step edits and the positions they touch                             *)
(***************************************************************************)
\* after is before with the entries at i and j exchanged.
swapped(before, after, i, j) ==
    /\ Len(after) = Len(before)
    /\ after[i] = before[j]
    /\ after[j] = before[i]
    /\ \A k \in 1..Len(before) : k \notin {i, j} => after[k] = before[k]

\* after is before without the entry at i, the rest in order.
deletedAt(before, after, i) ==
    /\ Len(after) = Len(before) - 1
    /\ \A k \in 1..Len(after) :
           after[k] = IF k < i THEN before[k] ELSE before[k + 1]

\* after is before with the entry at i replaced by text.
replacedAt(before, after, i, text) ==
    /\ Len(after) = Len(before)
    /\ after[i] = text
    /\ \A k \in 1..Len(before) : k # i => after[k] = before[k]

\* The neighbour moveStep exchanges the step with
neighbour(idx, direction) == IF direction = "up" THEN idx - 1 ELSE idx + 1

EditTouchesItsTarget ==
    /\ \A idx \in StepIndices, direction \in {"up", "down"} :
           MoveStep(idx, direction) =>
               IF neighbour(idx, direction) \in StepIndices
               THEN /\ swapped(planState.steps, planState'.steps,
                               idx, neighbour(idx, direction))
                    /\ planState'.originalPrompt = planState.originalPrompt
               ELSE planState' = planState
    /\ \A idx \in StepIndices :
           RemoveStep(idx) =>
               /\ deletedAt(planState.steps, planState'.steps, idx)
               /\ planState'.originalPrompt = planState.originalPrompt
    /\ \A idx \in StepIndices, text \in EditTexts :
           UpdateStepText(idx, text) =>
               /\ replacedAt(planState.steps, planState'.steps, idx, text)
               /\ planState'.originalPrompt = planState.originalPrompt

\* C24: step edits touch only the targeted positions: moveStep within range
\* swaps exactly the step at the index with its neighbour and keeps the
\* length and every other entry; moveStep up on the first step or down on
\* the last leaves the whole plan state unchanged, hasRun and planResult
\* included; removeStep deletes exactly the indexed entry and keeps the
\* order of the rest; updateStepText replaces only the indexed entry; none
\* of them changes originalPrompt.
EditsTouchOnlyTheirTarget == [][EditTouchesItsTarget]_vars

\* The fallback plan after one edit that exchanged its first two steps, which
\* differ.
FirstTwoStepsSwapped ==
    /\ nEdits = 1
    /\ FALLBACK_STEPS[1] # FALLBACK_STEPS[2]
    /\ Len(planState.steps) = Len(FALLBACK_STEPS)
    /\ swapped(FALLBACK_STEPS, planState.steps, 1, 2)

(***************************************************************************)
(* toDisplayBlocks: a line wrapped in "**" inside a section                *)
(***************************************************************************)
\* The line is wrapped in "**" whole.
isEmphasized(line) ==
    /\ Len(line) >= 4
    /\ SubSeq(line, 1, 2) = <<"*", "*">>
    /\ SubSeq(line, Len(line) - 1, Len(line)) = <<"*", "*">>

\* The text between the wrapping markers
emphasizedText(line) == SubSeq(line, 3, Len(line) - 2)

\* The line the scan is about to read
lineRead == scan.lines[scan.index]

\* The scan reads a line wrapped in "**", no header, with a section open,
\* and the text between the markers holds no "*".
emphasizedLineRead ==
    /\ scan.stage = "scanning"
    /\ scan.index <= Len(scan.lines)
    /\ scan.currentSection.open
    /\ ~isHeader(lineRead)
    /\ isEmphasized(lineRead)
    /\ \A k \in 1..Len(emphasizedText(lineRead)) : emphasizedText(lineRead)[k] # "*"

\* The step puts the open section at the end of the blocks, with its lines
\* as content, and leaves open an empty section titled by the text between
\* the markers.
closesAndOpens ==
    /\ Len(scan'.blocks) = Len(scan.blocks) + 1
    /\ SubSeq(scan'.blocks, 1, Len(scan.blocks)) = scan.blocks
    /\ scan'.blocks[Len(scan'.blocks)].type = "section"
    /\ scan'.blocks[Len(scan'.blocks)].title = scan.currentSection.title
    /\ contentIs(scan'.blocks[Len(scan'.blocks)].content, scan.currentSection.lines)
    /\ scan'.currentSection =
           [open |-> TRUE, title |-> emphasizedText(lineRead), lines |-> <<>>]

\* The blocks pushed stay where they are: a block pushed later comes later.
blocksGrowAtTheEnd ==
    scan.stage = "scanning" =>
        /\ Len(scan'.blocks) >= Len(scan.blocks)
        /\ SubSeq(scan'.blocks, 1, Len(scan.blocks)) = scan.blocks

\* C25: in toDisplayBlocks a line wrapped whole in "**" that comes while a
\* section is open closes that section and opens a new section titled by
\* the text without the markers; the closed section is emitted before the
\* new one, with its buffered lines as content.
EmphasizedLineOpensSection ==
    [][(emphasizedLineRead => closesAndOpens) /\ blocksGrowAtTheEnd]_vars

\* "**T**" has just been read after a header and a bullet line: the section
\* of the header is a block with its list, and section T is open.
SectionClosedByEmphasizedLine ==
    /\ scan.stage = "scanning"
    /\ scan.index = 4
    /\ scan.lines[3] = <<"*", "*", "T", "*", "*">>
    /\ scan.blocks = <<SectionBlock(<<"D", "a", "y", " ", "1">>,
                                    <<ListBlock(<<<<"a">>>>)>>)>>
    /\ scan.currentSection = [open |-> TRUE, title |-> <<"T">>, lines |-> <<>>]

(***************************************************************************)
(* toDisplayBlocks: after the first header                                 *)
(***************************************************************************)
\* The first header line, when there is one
firstHeader == CHOOSE i \in headerLines : \A j \in headerLines : i <= j

\* The lines after the first header that are not among `heads`, in order
linesBelow(heads) ==
    LET rest == SelectSeq([i \in 1..Len(scan.lines) |-> i],
                          LAMBDA i : i > firstHeader /\ i \notin heads)
    IN  [k \in 1..Len(rest) |-> scan.lines[rest[k]]]

RECURSIVE contentsOf(_)
\* The contents of the Section blocks, one after the other, as marks; the
\* empty paragraph of a section without lines stands for no line.
contentsOf(blocks) ==
    IF Len(blocks) = 0 THEN <<>>
    ELSE (IF Head(blocks).type = "section"
          THEN SelectSeq(blockMarks(Head(blocks).content),
                         LAMBDA m : m # <<"text", <<>>>>)
          ELSE <<>>)
         \o contentsOf(Tail(blocks))

\* Once a header has been read a section is open after every line.
sectionStaysOpen ==
    (scan.stage = "scanning" /\ \E j \in headerLines : j < scan.index)
        => scan.currentSection.open

\* Every block of the result after a Section is a Section.
sectionsToTheEnd ==
    scan.stage = "returned" =>
        \A i \in 1..Len(scan.result) : \A k \in (i + 1)..Len(scan.result) :
            scan.result[i].type = "section" => scan.result[k].type = "section"

\* The lines after the first header that are not among `heads` are the
\* contents of the sections, in order.
linesInSections(heads) ==
    (scan.stage = "returned" /\ headerLines # {})
        => contentsOf(scan.result) = lineMarks(linesBelow(heads))

\* C26, as stated: in toDisplayBlocks, once the first section has been
\* opened a section stays open until the end of the input: every top-level
\* block after the first Section block is a Section, and every non-header
\* line after the first header ends up inside some section's content.
SectionOpenToTheEnd ==
    /\ sectionStaysOpen
    /\ sectionsToTheEnd
    /\ linesInSections(headerLines)

\* C26, amended: the same, for every line after the first header that is
\* neither a header nor a line wrapped in "**": a wrapped line gives the
\* title of a section and is in no content.
SectionOpenToTheEndButTitles ==
    /\ sectionStaysOpen
    /\ sectionsToTheEnd
    /\ linesInSections(headingLines)

\* A header, a line of prose, a second header and a bullet line: two
\* sections and nothing else, each line in the content of its section.
TwoSectionsHoldTheLines ==
    /\ scan.stage = "returned"
    /\ headerLines = {1, 3}
    /\ scan.result = <<SectionBlock(<<"D", "a", "y", " ", "1">>,
                                    <<Paragraph(<<"p">>)>>),
                       SectionBlock(<<"l", "u", "n", "c", "h">>,
                                    <<ListBlock(<<<<"a">>>>)>>)>>

=============================================================================
